---- MODULE Spec2Model ----
(***************************************************************************)
(* Gamification and conversation-context core of the English-learning app. *)
(* One student document of the users collection (database.py) and the     *)
(* conversation documents (database.py, app.py) are modelled as state     *)
(* machines whose actions are the functions the routes call.              *)
(***************************************************************************)
EXTENDS Integers, Sequences, FiniteSets, TLC

(***************************************************************************)
(* Bounds of the model.                                                    *)
(***************************************************************************)
MaxOps == 2
MaxXP == 45
MaxActs == 5
MaxStages == 1
MaxWeek == 1
MaxExtraLines == 8
MaxSideTurns == 1
MaxCacheTurns == 3
MaxLevel == 4
MaxAttempts == 2

(***************************************************************************)
(* Program constants.                                                      *)
(***************************************************************************)
BaseGap == 25
DaysPerWeek == 7
PracticeTarget == 5
LearningTarget == 10
MasteryTarget == 3
ChallengeXP == 5
AllDoneBonus == 10
MistakesKept == 50
StreakBadgeMin == 7

NoDate == 0 - 5
NoWeek == 0 - 5

Max(a, b) == IF a >= b THEN a ELSE b
Min(a, b) == IF a <= b THEN a ELSE b

\* Body applied to the value of its argument, computed once: the document a
\* function reads with find_one, or the result of the call before it
With(value, Body(_)) == CHOOSE r \in {Body(v) : v \in {value}} : TRUE

(***************************************************************************)
(* XP / level formula (database.py 30-46).                                 *)
(***************************************************************************)
RECURSIVE ThresholdSum(_, _)
ThresholdSum(l, level) ==
    IF l >= level THEN 0
    ELSE BaseGap * (2 ^ (l - 1)) + ThresholdSum(l + 1, level)

xp_threshold_for_level(level) ==
    IF level <= 1 THEN 0 ELSE ThresholdSum(1, level)

\* the loop with "xp > next_threshold"
RECURSIVE LevelLoopStrict(_, _)
LevelLoopStrict(xp, level) ==
    IF xp > xp_threshold_for_level(level + 1)
    THEN LevelLoopStrict(xp, level + 1)
    ELSE level

\* the loop with "xp == next_threshold"
RECURSIVE LevelLoopExact(_, _)
LevelLoopExact(xp, level) ==
    IF xp = xp_threshold_for_level(level + 1)
    THEN LevelLoopExact(xp, level + 1)
    ELSE level

RECURSIVE LevelLoop(_, _)
LevelLoop(xp, level) ==
    IF xp >= xp_threshold_for_level(level + 1)
    THEN LevelLoop(xp, level + 1)
    ELSE level

calculate_level_from_xp(xp) == LevelLoop(xp, 1)

calculate_level(xp) == calculate_level_from_xp(xp)

\* the gap computed as the threshold of the next level alone
get_xp_for_next_level_from_zero(current_level) ==
    xp_threshold_for_level(current_level + 1)

\* get_xp_for_next_level (app.py 91-93)
get_xp_for_next_level(current_level) ==
    xp_threshold_for_level(current_level + 1) - xp_threshold_for_level(current_level)

(***************************************************************************)
(* Badge catalog (database.py 74-97), in dictionary order.                 *)
(***************************************************************************)
ALL_BADGES == <<
    [id |-> "level_2",     type |-> "level",                    req |-> 2],
    [id |-> "level_5",     type |-> "level",                    req |-> 5],
    [id |-> "level_10",    type |-> "level",                    req |-> 10],
    [id |-> "level_15",    type |-> "level",                    req |-> 15],
    [id |-> "xp_25",       type |-> "total_xp",                 req |-> 25],
    [id |-> "xp_100",      type |-> "total_xp",                 req |-> 100],
    [id |-> "xp_500",      type |-> "total_xp",                 req |-> 500],
    [id |-> "xp_1000",     type |-> "total_xp",                 req |-> 1000],
    [id |-> "conv_5",      type |-> "conversation_count",       req |-> 5],
    [id |-> "conv_25",     type |-> "conversation_count",       req |-> 25],
    [id |-> "roleplay_5",  type |-> "roleplay_count",           req |-> 5],
    [id |-> "roleplay_20", type |-> "roleplay_count",           req |-> 20],
    [id |-> "repeat_10",   type |-> "repeat_count",             req |-> 10],
    [id |-> "repeat_50",   type |-> "repeat_count",             req |-> 50],
    [id |-> "repeat_200",  type |-> "repeat_count",             req |-> 200],
    [id |-> "spell_5",     type |-> "spelling_count",           req |-> 5],
    [id |-> "spell_25",    type |-> "spelling_count",           req |-> 25],
    [id |-> "spell_100",   type |-> "spelling_count",           req |-> 100],
    [id |-> "vocab_10",    type |-> "vocabulary_count",         req |-> 10],
    [id |-> "vocab_50",    type |-> "vocabulary_count",         req |-> 50],
    [id |-> "perfect_5",   type |-> "high_pronunciation_count", req |-> 5],
    [id |-> "perfect_25",  type |-> "high_pronunciation_count", req |-> 25]
>>

CounterNames == {"conversation_count", "roleplay_count", "repeat_count",
                 "spelling_count", "vocabulary_count", "high_pronunciation_count"}

SeqToSet(s) == {s[i] : i \in 1..Len(s)}


(***************************************************************************)
(* The student document.  A field a document lacks reads as the default    *)
(* every .get() of the code supplies; ach.kind keeps the three shapes the  *)
(* code distinguishes: key absent, value not a dict, dict.                 *)
(***************************************************************************)
ModeNames == {"repeat", "spellbee", "conversation", "roleplay", "other"}

Weeks == 0..MaxWeek

get_week_key(today) == today \div DaysPerWeek

init_user_achievements ==
    [kind |-> "dict", badges_earned |-> <<>>, daily_login_streak |-> 0,
     max_login_streak |-> 0, last_login |-> NoDate,
     counts |-> [c \in CounterNames |-> 0], challenge_streak |-> 0]

NoAchievements == [init_user_achievements EXCEPT !.kind = "absent"]

CorruptAchievements == [init_user_achievements EXCEPT !.kind = "corrupt"]

NewSlots == <<
    [type |-> "practice", target |-> PracticeTarget, current |-> 0, completed |-> FALSE, xp |-> ChallengeXP],
    [type |-> "learning", target |-> LearningTarget, current |-> 0, completed |-> FALSE, xp |-> ChallengeXP],
    [type |-> "mastery",  target |-> MasteryTarget,  current |-> 0, completed |-> FALSE, xp |-> ChallengeXP] >>

\* daily_challenges: {} of create_user (no week, no slots)
EmptyChallenges ==
    [week |-> NoWeek, slots |-> NewSlots, completed_today |-> 0, streak |-> 0]

\* the default of user.get('mistakes', ...) (database.py 173): the lengths of
\* the three lists and the total
NoMistakes == [pronunciation |-> 0, spelling |-> 0, vocabulary |-> 0, total |-> 0]

\* create_user (database.py 288-312)
create_user ==
    [total_xp |-> 0, total_stars |-> 0, level |-> 1,
     mode_stats |-> [m \in ModeNames |-> [stars |-> 0, sessions |-> 0]],
     ach |-> init_user_achievements,
     dc |-> EmptyChallenges,
     weekly_xp |-> [w \in Weeks |-> 0],
     mistakes |-> NoMistakes]

(***************************************************************************)
(* check_and_award_badges (database.py 107-132): result is the document    *)
(* after the call and the returned list of new badge ids.                  *)
(***************************************************************************)
QualifiesStrict(current, req) == current > req

AlwaysNew(bid, have) == TRUE

\* the negation of `if bid in earned: continue` (line 120)
NotYetEarned(bid, have) == bid \notin have

Qualifies(current, req) == current >= req

\* the loop over ALL_BADGES.items(): the ids, in catalog order, of the badges
\* not yet earned whose current value reaches req
NewBadges(doc, achievements, earned) ==
    LET have == SeqToSet(earned)
        level == doc.level
        total_xp == doc.total_xp
        counts == achievements.counts
        Current(badge) == CASE badge.type = "level" -> level
                            [] badge.type = "total_xp" -> total_xp
                            [] OTHER -> counts[badge.type]
        won == SelectSeq(ALL_BADGES,
                         LAMBDA badge : /\ NotYetEarned(badge.id, have)
                                        /\ Qualifies(Current(badge), badge.req))
    IN  [i \in 1..Len(won) |-> won[i].id]

ReplaceEarned(earned, new_badges) == new_badges

ExtendEarned(earned, new_badges) == earned \o new_badges

check_and_award_badges(doc) ==
    With(doc, LAMBDA user :
        LET reinit == user.ach.kind = "corrupt"
            stored == IF reinit THEN [user EXCEPT !.ach = init_user_achievements] ELSE user
            achievements == IF user.ach.kind = "dict" THEN user.ach
                            ELSE init_user_achievements
            earned == achievements.badges_earned
        IN  With(NewBadges(user, achievements, earned), LAMBDA new_badges :
                [doc |-> IF new_badges # <<>>
                         THEN [stored EXCEPT !.ach.kind = "dict",
                                             !.ach.badges_earned =
                                                 ExtendEarned(earned, new_badges)]
                         ELSE stored,
                 ret |-> new_badges]))

(***************************************************************************)
(* update_login_streak (database.py 134-157)                               *)
(***************************************************************************)
update_login_streak_counting_every_login(doc, today) ==
    With(doc, LAMBDA user :
        LET achievements == IF user.ach.kind = "dict" THEN user.ach
                            ELSE init_user_achievements
            streak == achievements.daily_login_streak + 1
        IN  check_and_award_badges(
                [user EXCEPT !.ach = [achievements EXCEPT
                                         !.daily_login_streak = streak,
                                         !.max_login_streak = Max(streak, @),
                                         !.last_login = today]]).doc)

\* update_login_streak storing the streak as the maximum
update_login_streak_forgetting_max(doc, today) ==
    With(doc, LAMBDA user :
        LET reinit == user.ach.kind = "corrupt"
            stored == IF reinit THEN [user EXCEPT !.ach = init_user_achievements] ELSE user
            achievements == IF user.ach.kind = "dict" THEN user.ach
                            ELSE init_user_achievements
            last_login == achievements.last_login
            streak == IF last_login = today - 1
                      THEN achievements.daily_login_streak + 1 ELSE 1
        IN  IF last_login = today THEN stored
            ELSE check_and_award_badges(
                     [stored EXCEPT !.ach.kind = "dict",
                                    !.ach.daily_login_streak = streak,
                                    !.ach.max_login_streak = streak,
                                    !.ach.last_login = today]).doc)

update_login_streak(doc, today) ==
    With(doc, LAMBDA user :
        LET reinit == user.ach.kind = "corrupt"
            stored == IF reinit THEN [user EXCEPT !.ach = init_user_achievements] ELSE user
            achievements == IF user.ach.kind = "dict" THEN user.ach
                            ELSE init_user_achievements
            last_login == achievements.last_login
            yesterday == today - 1
            streak == IF last_login = yesterday
                      THEN achievements.daily_login_streak + 1 ELSE 1
            max_streak == Max(streak, achievements.max_login_streak)
        IN  IF last_login = today THEN stored
            ELSE check_and_award_badges(
                     [stored EXCEPT !.ach.kind = "dict",
                                    !.ach.daily_login_streak = streak,
                                    !.ach.max_login_streak = max_streak,
                                    !.ach.last_login = today]).doc)

(***************************************************************************)
(* increment_activity (database.py 159-166): the $inc fails on a value     *)
(* that is not a document, and the handler then skips the badge check.     *)
(***************************************************************************)
increment_activity_unchecked(doc, activity_type, amount) ==
    With(doc, LAMBDA user :
        LET field == activity_type \o "_count"
        IN  IF user.ach.kind = "corrupt" THEN user
            ELSE [user EXCEPT !.ach.kind = "dict",
                              !.ach.counts[field] = @ + amount])

increment_activity(doc, activity_type, amount) ==
    With(doc, LAMBDA user :
        LET field == activity_type \o "_count"
        IN  IF user.ach.kind = "corrupt" THEN user
            ELSE check_and_award_badges(
                     [user EXCEPT !.ach.kind = "dict",
                                  !.ach.counts[field] = @ + amount]).doc)


(***************************************************************************)
(* get_daily_challenges (database.py 196-221): the document after the call *)
(* and the returned challenge set (ok = FALSE for the None of the except   *)
(* branch, taken when the $set below a non-document value fails).          *)
(***************************************************************************)
AllDoneCount == 3

RolloverStreakKept(streak, all_done) == IF all_done THEN streak + 1 ELSE streak

RolloverStreak(streak, all_done) == IF all_done THEN streak + 1 ELSE 0

\* get_daily_challenges without the comparison of week keys
get_daily_challenges_resetting(doc, today) ==
    With(doc, LAMBDA user :
        LET fresh == [week |-> get_week_key(today), slots |-> NewSlots,
                      completed_today |-> 0, streak |-> 0]
        IN  [doc |-> [user EXCEPT !.dc = fresh], ok |-> TRUE, challenges |-> fresh])

get_daily_challenges(doc, today) ==
    With(doc, LAMBDA user :
        LET current_week == get_week_key(today)
            challenges == user.dc
            streak == challenges.streak
            all_done == challenges.completed_today = AllDoneCount
            new_streak == RolloverStreak(streak, all_done)
            fresh == [week |-> current_week, slots |-> NewSlots,
                      completed_today |-> 0, streak |-> new_streak]
            awarded == IF new_streak >= StreakBadgeMin
                       THEN check_and_award_badges(
                                [user EXCEPT !.ach.kind = "dict",
                                             !.ach.challenge_streak = new_streak]).doc
                       ELSE user
        IN  IF challenges.week = current_week
            THEN [doc |-> user, ok |-> TRUE, challenges |-> challenges]
            ELSE IF new_streak >= StreakBadgeMin /\ user.ach.kind = "corrupt"
                 THEN [doc |-> user, ok |-> FALSE, challenges |-> challenges]
                 ELSE [doc |-> [awarded EXCEPT !.dc = fresh], ok |-> TRUE,
                       challenges |-> fresh])

(***************************************************************************)
(* update_challenge_progress (database.py 223-249): the document after the *)
(* call and the returned xp_earned.                                        *)
(***************************************************************************)
type_map(challenge_type) ==
    CASE challenge_type = "practice" -> 1
      [] challenge_type = "learning" -> 2
      [] challenge_type = "mastery" -> 3
      [] OTHER -> 0

BonusDueAfterFirst(completed_today) == completed_today >= 1

\* the bonus test of line 237
BonusDue(completed_today) == completed_today = AllDoneCount

AddXPKeepLevel(doc, xp_earned) ==
    With(doc, LAMBDA cur_user :
        check_and_award_badges(
            [cur_user EXCEPT !.total_xp = cur_user.total_xp + xp_earned]).doc)

\* lines 240-246
AddLevelXP(doc, xp_earned) ==
    With(doc, LAMBDA cur_user :
        LET new_xp == cur_user.total_xp + xp_earned
            new_level == calculate_level_from_xp(new_xp)
        IN  check_and_award_badges(
                [cur_user EXCEPT !.total_xp = new_xp, !.level = new_level]).doc)

update_challenge_progress(doc, today, challenge_type, increment) ==
  With(get_daily_challenges(doc, today), LAMBDA got :
    LET challenges == got.challenges
        key == type_map(challenge_type)
        advance == key # 0 /\ ~challenges.slots[key].completed
        current == IF advance
                   THEN Min(challenges.slots[key].target, challenges.slots[key].current + increment)
                   ELSE 0
        reached == advance /\ current >= challenges.slots[key].target
        slots1 == IF advance
                  THEN [challenges.slots EXCEPT ![key].current = current,
                                                ![key].completed = reached]
                  ELSE challenges.slots
        completed_today == IF reached THEN challenges.completed_today + 1
                           ELSE challenges.completed_today
        xp_slot == IF reached THEN challenges.slots[key].xp ELSE 0
        xp_earned == IF BonusDue(completed_today) THEN xp_slot + AllDoneBonus ELSE xp_slot
        saved == [got.doc EXCEPT !.dc = [challenges EXCEPT !.slots = slots1,
                                                           !.completed_today = completed_today]]
    IN  IF ~got.ok THEN [doc |-> got.doc, ret |-> 0]
        ELSE [doc |-> IF xp_earned > 0 THEN AddLevelXP(saved, xp_earned) ELSE saved,
              ret |-> xp_earned])

(***************************************************************************)
(* update_user_xp, update_weekly_xp, update_user_mode_stats                *)
(* (database.py 340-348, 187-194, 350-360)                                 *)
(***************************************************************************)
update_user_xp_swapped(doc, xp, level, stars) ==
    check_and_award_badges(
        [doc EXCEPT !.total_xp = stars, !.level = level, !.total_stars = xp]).doc

update_user_xp(doc, xp, level, stars) ==
    check_and_award_badges(
        [doc EXCEPT !.total_xp = xp, !.level = level, !.total_stars = stars]).doc

update_weekly_xp_any_sign(doc, today, xp_to_add) ==
    [doc EXCEPT !.weekly_xp[get_week_key(today)] = @ + xp_to_add]

update_weekly_xp(doc, today, xp_to_add) ==
    IF xp_to_add <= 0 THEN doc
    ELSE [doc EXCEPT !.weekly_xp[get_week_key(today)] = @ + xp_to_add]

update_user_mode_stats_stars_only(doc, mode, stars_earned) ==
    [doc EXCEPT !.mode_stats[mode].stars = @ + stars_earned]

update_user_mode_stats_sessions_only(doc, mode, stars_earned) ==
    [doc EXCEPT !.mode_stats[mode].sessions = @ + 1]

update_user_mode_stats(doc, mode, stars_earned) ==
    [doc EXCEPT !.mode_stats[mode].stars = @ + stars_earned,
                !.mode_stats[mode].sessions = @ + 1]

(***************************************************************************)
(* save_user_progress (app.py 108-149)                                     *)
(***************************************************************************)
DispatchSpellingUnconditional(doc, today, mode, stars_earned) ==
    CASE mode = "repeat" ->
           update_challenge_progress(increment_activity(doc, "repeat", 1), today, "learning", 1).doc
      [] mode = "spellbee" -> increment_activity(doc, "spelling", 1)
      [] mode \in {"conversation", "roleplay"} ->
           update_challenge_progress(increment_activity(doc, mode, 1), today, "practice", 1).doc
      [] OTHER -> doc

Dispatch(doc, today, mode, stars_earned) ==
    CASE mode = "repeat" ->
           update_challenge_progress(increment_activity(doc, "repeat", 1), today, "learning", 1).doc
      [] mode = "spellbee" ->
           IF stars_earned > 0 THEN increment_activity(doc, "spelling", 1) ELSE doc
      [] mode = "conversation" ->
           update_challenge_progress(increment_activity(doc, "conversation", 1), today, "practice", 1).doc
      [] mode = "roleplay" ->
           update_challenge_progress(increment_activity(doc, "roleplay", 1), today, "practice", 1).doc
      [] OTHER -> doc

\* what the dispatched update_challenge_progress returned (0 without one)
DispatchReturned(doc, today, mode, stars_earned) ==
    CASE mode = "repeat" ->
           update_challenge_progress(increment_activity(doc, "repeat", 1), today, "learning", 1).ret
      [] mode = "conversation" ->
           update_challenge_progress(increment_activity(doc, "conversation", 1), today, "practice", 1).ret
      [] mode = "roleplay" ->
           update_challenge_progress(increment_activity(doc, "roleplay", 1), today, "practice", 1).ret
      [] OTHER -> 0

save_user_progress(doc, today, stars_earned, mode) ==
    LET old_level == doc.level
        old_xp == doc.total_xp
        old_stars == doc.total_stars
        new_xp == old_xp + stars_earned
        new_stars == old_stars + stars_earned
        new_level == calculate_level(new_xp)
        d1 == update_user_xp(doc, new_xp, new_level, new_stars)
        d2 == update_weekly_xp(d1, today, stars_earned)
        d3 == update_user_mode_stats(d2, mode, stars_earned)
    IN  [doc |-> Dispatch(d3, today, mode, stars_earned),
         ret |-> [leveled_up |-> new_level > old_level,
                  new_level |-> new_level, old_level |-> old_level],
         dispatched |-> DispatchReturned(d3, today, mode, stars_earned)]

(***************************************************************************)
(* Student branch of login (app.py 1497-1521), password accepted.  The     *)
(* "init missing fields" step tests the document read at line 1498.        *)
(***************************************************************************)
LoginChecked(doc, today) ==
    check_and_award_badges(update_login_streak(doc, today)).doc

login(doc, today) ==
    LET user == doc
        checked == LoginChecked(doc, today)
    IN  IF user.ach.kind = "absent"
        THEN [checked EXCEPT !.ach = init_user_achievements]
        ELSE checked

(***************************************************************************)
(* api_ensure_badges (app.py 2161-2183)                                    *)
(***************************************************************************)
api_ensure_badges(doc) ==
    LET d1 == IF doc.ach.kind = "absent"
              THEN [doc EXCEPT !.ach = init_user_achievements] ELSE doc
        correct_level == calculate_level(doc.total_xp)
        d2 == IF doc.level # correct_level THEN [d1 EXCEPT !.level = correct_level] ELSE d1
    IN  check_and_award_badges(d2).doc

(***************************************************************************)
(* Start-up (app.py 63-75): migrate_all_users_levels_and_badges and        *)
(* backfill_weekly_xp (database.py 717-763) for one student document.      *)
(***************************************************************************)
migrate_user(doc) ==
    LET correct_level == calculate_level_from_xp(doc.total_xp)
        d1 == [doc EXCEPT !.level = correct_level]
        d2 == IF doc.ach.kind = "corrupt"
              THEN [d1 EXCEPT !.ach = init_user_achievements] ELSE d1
    IN  check_and_award_badges(d2).doc

backfill_weekly_xp(doc, today) ==
    With(doc, LAMBDA user :
        LET week == get_week_key(today)
        IN  IF user.weekly_xp[week] = 0 /\ user.total_xp > 0
            THEN [user EXCEPT !.weekly_xp[week] = user.total_xp]
            ELSE user)

startup(doc, today) == backfill_weekly_xp(migrate_user(doc), today)


(***************************************************************************)
(* Conversation contexts (database.py 514-549, app.py 213-235, 248-413).   *)
(* A text is the sequence of its lines, as text.split('\n') gives them: the *)
(* empty string is one empty line.  A line is blank (empty or white space) *)
(* or carries the user, mode and turn that wrote it and its place in the   *)
(* turn (1 for the Child:/Student: line, 2.. for the Assistant: lines).    *)
(***************************************************************************)
ConversationLimit == 100
RoleplayLimit == 50

Users == {"u1", "u2"}
Personas == {"teacher", "friend"}
ModeKeys == {"conversation", "roleplay", "roleplay_teacher", "roleplay_friend"}

Blank == [user |-> "", mode |-> "", turn |-> 0, part |-> 0]
EmptyText == <<Blank>>
IsBlank(line) == line.turn = 0

\* str.strip() on a text whose first and last written lines carry a prefix:
\* the blank lines before the first and after the last written line go
strip(text) ==
    LET written == {i \in 1..Len(text) : ~IsBlank(text[i])}
        first == CHOOSE i \in written : \A j \in written : i <= j
        final == CHOOSE i \in written : \A j \in written : i >= j
    IN  IF written = {} THEN EmptyText ELSE SubSeq(text, first, final)

KeepFirst(msgs, limit) == SubSeq(msgs, 1, limit)

\* msgs[-limit:] (database.py 529)
KeepLast(msgs, limit) == SubSeq(msgs, Len(msgs) - limit + 1, Len(msgs))

\* database.py 524-527
TrimLimit(mode) == IF mode = "conversation" THEN ConversationLimit ELSE RoleplayLimit

\* the conversations collection after save_conversation
save_conversation(store, user_id, mode, conversation_text) ==
    LET msgs == IF conversation_text = EmptyText THEN <<>> ELSE strip(conversation_text)
        limit == TrimLimit(mode)
        stored == IF Len(msgs) > limit THEN KeepLast(msgs, limit) ELSE conversation_text
    IN  [store EXCEPT ![user_id][mode] = stored]

get_conversation(store, user_id, mode) == store[user_id][mode]

\* database.py 551-559: $unset of the mode's text, read back as ''
delete_conversation(store, user_id, mode) ==
    [store EXCEPT ![user_id][mode] = EmptyText]

\* app.py 213-223; a user missing from the cache reads as '' for every mode
get_user_context(store, cache, user_id, mode) ==
    LET context == get_conversation(store, user_id, mode)
    IN  IF context # EmptyText THEN context ELSE cache[user_id][mode]

\* app.py 225-235: the collection and the cache after the call
update_user_context(store, cache, user_id, mode, context) ==
    [store |-> save_conversation(store, user_id, mode, context),
     cache |-> [cache EXCEPT ![user_id][mode] = context]]

context_key_shared(roleplay_type) == "roleplay"

\* app.py 302
context_key(roleplay_type) ==
    IF roleplay_type # "" THEN "roleplay_" \o roleplay_type ELSE "roleplay"

\* "\n<Child|Student>: <text>\nAssistant: <reply>" as lines; reply_shape has
\* one entry per line of the stripped reply, 1 for a written line, 0 for a
\* blank one
TurnLines(user_id, mode, turn, reply_shape) ==
    <<[user |-> user_id, mode |-> mode, turn |-> turn, part |-> 1]>>
    \o [i \in 1..Len(reply_shape) |->
           IF reply_shape[i] = 1
           THEN [user |-> user_id, mode |-> mode, turn |-> turn, part |-> i + 1]
           ELSE Blank]

\* english_coach and roleplay_coach from the context key on (app.py 250,
\* 293-295 and 303, 409-411)
coach(store, cache, user_id, mode, turn, reply_shape) ==
    LET context == get_user_context(store, cache, user_id, mode)
        new_context == context \o TurnLines(user_id, mode, turn, reply_shape)
        updated == update_user_context(store, cache, user_id, mode, new_context)
    IN  [store |-> updated.store, cache |-> updated.cache, prompt |-> context]

english_coach(store, cache, user_id, turn, reply_shape) ==
    coach(store, cache, user_id, "conversation", turn, reply_shape)

roleplay_coach(store, cache, roleplay_type, user_id, turn, reply_shape) ==
    coach(store, cache, user_id, context_key(roleplay_type), turn, reply_shape)

\* app.py 1728-1729
logout(cache, user_id) == [cache EXCEPT ![user_id] = [m \in ModeKeys |-> EmptyText]]


(***************************************************************************)
(* The users collection and get_weekly_leaderboard (database.py 251-284).  *)
(* A string is the sequence of its characters; a stored user is its        *)
(* profile fields with the gamification document of the sections above.    *)
(***************************************************************************)
Digits == {"0", "1", "2", "3", "4", "5", "6", "7", "8", "9"}

\* str.lower / str.upper, character by character
lower_char(c) ==
    CASE c = "A" -> "a" [] c = "B" -> "b" [] c = "K" -> "k" [] c = "G" -> "g"
      [] OTHER -> c

upper_char(c) ==
    CASE c = "a" -> "A" [] c = "b" -> "B" [] c = "k" -> "K" [] c = "g" -> "G"
      [] OTHER -> c

str_lower(s) == [i \in 1..Len(s) |-> lower_char(s[i])]
str_upper(s) == [i \in 1..Len(s) |-> upper_char(s[i])]

\* str.strip(): without its leading and trailing whitespace
str_strip(s) ==
    LET inked == {i \in 1..Len(s) : s[i] # " "}
    IN  IF inked = {} THEN <<>>
        ELSE SubSeq(s, CHOOSE i \in inked : \A j \in inked : i <= j,
                       CHOOSE i \in inked : \A j \in inked : i >= j)

\* str.isdigit()
isdigit(s) == Len(s) > 0 /\ \A i \in 1..Len(s) : s[i] \in Digits

\* database.py 259-260 against 256: the class test of the filter loop
class_differs_exact(student_class, selected_class_str) ==
    student_class # selected_class_str

class_differs(student_class, selected_class_str) ==
    str_lower(student_class) # str_lower(selected_class_str)

\* database.py 258-266: the records the filter loop keeps
in_selection(s, selected_class_str, selected_div_str) ==
    LET student_class == str_strip(s.class)
        student_div   == str_upper(str_strip(s.division))
    IN  /\ s.user_type # "teacher"
        /\ ~class_differs(student_class, selected_class_str)
        /\ ~(selected_div_str # <<>> /\ student_div # selected_div_str)

\* database.py 268-279: the entry of one kept record
leaderboard_entry(s, week) ==
    [user_id   |-> s._id,
     name      |-> s.name,
     xp        |-> s.doc.total_xp,
     weekly_xp |-> s.doc.weekly_xp[week],
     level     |-> s.doc.level,
     badges    |-> Len(s.doc.ach.badges_earned),
     division  |-> s.division,
     rank      |-> 0]

\* database.py 280: key=lambda x: (x['weekly_xp'], x['xp'])
sort_key_xp_first(x) == <<x.xp, x.weekly_xp>>

sort_key(x) == <<x.weekly_xp, x.xp>>

\* tuple comparison of two keys
KeyLess(k1, k2) == k1[1] < k2[1] \/ (k1[1] = k2[1] /\ k1[2] < k2[2])

\* list.sort(reverse=True) is stable: an entry goes behind every entry
\* already placed whose key is not smaller than its own
InsertEntry(sorted, e) ==
    LET ahead == Cardinality({i \in 1..Len(sorted) :
                                 ~KeyLess(sort_key(sorted[i]), sort_key(e))})
    IN  SubSeq(sorted, 1, ahead) \o <<e>> \o SubSeq(sorted, ahead + 1, Len(sorted))

RECURSIVE SortedFirst(_, _)
SortedFirst(lb, n) ==
    IF n = 0 THEN <<>>
    ELSE With(SortedFirst(lb, n - 1), LAMBDA sorted : InsertEntry(sorted, lb[n]))

sort_reverse(lb) == SortedFirst(lb, Len(lb))

\* database.py 48-71: the collection is None when the connection failed
None == [connected |-> FALSE, docs |-> <<>>]

Collection(docs) == [connected |-> TRUE, docs |-> docs]

\* database.py 251-284

get_weekly_leaderboard(users_collection, today, selected_class, selected_division) ==
    IF users_collection = None THEN <<>>
    ELSE
    LET week == get_week_key(today)
        selected_class_str == str_strip(selected_class)
        selected_div_str == str_upper(str_strip(selected_division))
        students == SelectSeq(users_collection.docs,
                        LAMBDA s : in_selection(s, selected_class_str, selected_div_str))
        lb == [i \in 1..Len(students) |-> leaderboard_entry(students[i], week)]
    IN  With(sort_reverse(lb), LAMBDA sorted :
            [i \in 1..Len(sorted) |-> [sorted[i] EXCEPT !.rank = i]])


(***************************************************************************)
(* User CRUD (database.py 288-330) and signup (app.py 1534-1604).          *)
(***************************************************************************)
\* generate_password_hash: the stored form names its scheme
hash_password(plain_text) == [scheme |-> "pbkdf2", of |-> plain_text]

IndexOf(users, user_id) ==
    IF \E i \in 1..Len(users) : users[i]._id = user_id
    THEN CHOOSE i \in 1..Len(users) : users[i]._id = user_id
    ELSE 0

\* a looked-up user is <<user>>, and <<>> where the code has None
NoUser == <<>>

\* database.py 314-317
get_user_by_id(users_collection, user_id) ==
    IF users_collection = None THEN NoUser
    ELSE IF IndexOf(users_collection.docs, user_id) = 0 THEN NoUser
    ELSE <<users_collection.docs[IndexOf(users_collection.docs, user_id)]>>

\* database.py 288-312 on the collection: [users, user]
insert_user(users_collection, user_id, username, password, user_type) ==
    IF users_collection = None THEN [users |-> users_collection, user |-> NoUser]
    ELSE IF IndexOf(users_collection.docs, user_id) # 0       \* DuplicateKeyError
    THEN [users |-> users_collection, user |-> NoUser]
    ELSE LET user == [_id |-> user_id, name |-> username,
                      password |-> hash_password(password),
                      user_type |-> user_type,
                      class |-> <<>>, division |-> <<>>,
                      doc |-> create_user]
         IN  [users |-> Collection(Append(users_collection.docs, user)),
              user |-> <<user>>]

\* database.py 324-330 with the fields signup sets
update_user(users_collection, user_id, student_class, division, name) ==
    IF users_collection = None THEN users_collection
    ELSE IF IndexOf(users_collection.docs, user_id) = 0 THEN users_collection
    ELSE [users_collection EXCEPT !.docs[IndexOf(users_collection.docs, user_id)] =
              [@ EXCEPT !.class = student_class, !.division = division,
                        !.name = name]]

\* app.py 1578: the shape a student id must have
IdLength == 4

valid_user_id_any_digits(user_id) == isdigit(user_id)

valid_user_id(user_id) == Len(user_id) = IdLength /\ isdigit(user_id)

\* app.py 1570-1604, the student branch: [users, success, message]
signup(users_collection, data) ==
    IF ~(data.user_id # <<>> /\ data.password # "" /\ data.name # ""
         /\ data.class # <<>> /\ data.division # <<>>)
    THEN [users |-> users_collection, success |-> FALSE,
          message |-> "Please fill in all fields."]
    ELSE IF ~valid_user_id(data.user_id)
    THEN [users |-> users_collection, success |-> FALSE,
          message |-> "User ID must be exactly 4 digits."]
    ELSE IF get_user_by_id(users_collection, data.user_id) # NoUser
    THEN [users |-> users_collection, success |-> FALSE,
          message |-> "User ID already exists. Please login or choose a different ID."]
    ELSE With(insert_user(users_collection, data.user_id, data.name,
                          data.password, "student"), LAMBDA created :
            IF created.user # NoUser
            THEN [users |-> update_user(created.users, data.user_id,
                                        data.class, data.division, data.name),
                  success |-> TRUE, message |-> ""]
            ELSE [users |-> created.users, success |-> FALSE,
                  message |-> "Error creating account. Please try again."])


(***************************************************************************)
(* The operations as called with a user id, behind their guards            *)
(* `if users_collection is None` and `if not user`, and the student branch *)
(* of login (app.py 1496-1527) from the request on.  A returned None is    *)
(* the empty sequence, a returned value v is <<v>>.                        *)
(***************************************************************************)
StoreDoc(users, user_id, d) ==
    [users EXCEPT !.docs[IndexOf(users.docs, user_id)].doc = d]

\* database.py 107-111
check_and_award_badges_of(users, user_id) ==
    IF users = None THEN [users |-> users, ret |-> <<>>]
    ELSE With(get_user_by_id(users, user_id), LAMBDA user :
            IF user = NoUser THEN [users |-> users, ret |-> <<>>]
            ELSE With(check_and_award_badges(user[1].doc), LAMBDA r :
                    [users |-> StoreDoc(users, user_id, r.doc), ret |-> r.ret]))

\* database.py 196-200
get_daily_challenges_of(users, user_id, day) ==
    IF users = None THEN [users |-> users, ret |-> <<>>]
    ELSE With(get_user_by_id(users, user_id), LAMBDA user :
            IF user = NoUser THEN [users |-> users, ret |-> <<>>]
            ELSE With(get_daily_challenges(user[1].doc, day), LAMBDA r :
                    [users |-> StoreDoc(users, user_id, r.doc),
                     ret |-> IF r.ok THEN <<r.challenges>> ELSE <<>>]))

\* database.py 223-227
update_challenge_progress_of(users, user_id, day, challenge_type) ==
    IF users = None THEN [users |-> users, ret |-> 0]
    ELSE With(get_user_by_id(users, user_id), LAMBDA user :
            IF user = NoUser THEN [users |-> users, ret |-> 0]
            ELSE With(update_challenge_progress(user[1].doc, day, challenge_type, 1),
                      LAMBDA r : [users |-> StoreDoc(users, user_id, r.doc),
                                  ret |-> r.ret]))

\* database.py 520, 543: conversations_collection is None with users_collection
save_conversation_reporting_success(users, store, user_id, mode, conversation_text) ==
    [store |-> IF users = None THEN store
               ELSE save_conversation(store, user_id, mode, conversation_text),
     ret |-> TRUE]

save_conversation_of(users, store, user_id, mode, conversation_text) ==
    IF users = None THEN [store |-> store, ret |-> FALSE]
    ELSE [store |-> save_conversation(store, user_id, mode, conversation_text),
          ret |-> TRUE]

get_conversation_of(users, store, user_id, mode) ==
    IF users = None THEN EmptyText ELSE get_conversation(store, user_id, mode)

\* app.py 108-149 with get_user_by_id
save_progress_of(users, user_id, day, stars_earned, mode) ==
    With(get_user_by_id(users, user_id), LAMBDA user :
        IF user = NoUser
        THEN [users |-> users, ret |-> <<>>]
        ELSE With(save_user_progress(user[1].doc, day, stars_earned, mode), LAMBDA r :
                [users |-> StoreDoc(users, user_id, r.doc), ret |-> <<r.ret>>]))

\* database.py 14-27
check_pw(stored, provided) == stored.of = provided

is_hashed(stored) == stored.scheme \in {"pbkdf2", "scrypt"}

\* app.py 1496-1527: [users, success, message]
login_of(users, day, user_id, password) ==
    IF ~(user_id # <<>> /\ password # "")
    THEN [users |-> users, success |-> FALSE,
          message |-> "Please enter both User ID and Password."]
    ELSE With(get_user_by_id(users, user_id), LAMBDA user :
            IF user = NoUser
            THEN [users |-> users, success |-> FALSE,
                  message |-> "User ID not found. Please sign up first."]
            ELSE IF ~check_pw(user[1].password, password)
            THEN [users |-> users, success |-> FALSE, message |-> "Incorrect password."]
            ELSE LET i == IndexOf(users.docs, user_id)
                     stored == IF is_hashed(user[1].password) THEN user[1].password
                               ELSE hash_password(password)
                 IN  [users |-> [users EXCEPT !.docs[i].password = stored,
                                              !.docs[i].doc = login(user[1].doc, day)],
                      success |-> TRUE, message |-> ""])


(***************************************************************************)
(* The practice routes: process (app.py 1760-1797), repeat_sentence        *)
(* (1800-1830) and spell_word (1899-1932).  A call of the dialogue         *)
(* generator or of gTTS either returns or raises; a response is its HTTP   *)
(* status, the kind of its content and its audio values.                   *)
(***************************************************************************)
Returns == "returns"
Raises == "raises"
ServiceOutcomes == {Returns, Raises}

AudioFile == "/static/audio/file.mp3"
NullAudio == "null"

\* an exception that leaves the view function (Flask answers 500)
ErrorResponse == [status |-> 500, content |-> "error", audio |-> <<>>]

OkResponse(content, audio) == [status |-> 200, content |-> content, audio |-> audio]

\* process with the activity counted before the coach is called
process_counting_first(store, cache, doc, today, user_id, roleplay, turn, reply_shape, llm, tts) ==
    LET counted == increment_activity(
                       doc, IF roleplay # "" THEN "roleplay" ELSE "conversation", 1)
    IN  IF llm = Raises
        THEN [store |-> store, cache |-> cache, doc |-> counted, talked |-> FALSE,
              prompt |-> EmptyText, response |-> ErrorResponse]
        ELSE LET ai == IF roleplay # ""
                       THEN roleplay_coach(store, cache, roleplay, user_id, turn, reply_shape)
                       ELSE english_coach(store, cache, user_id, turn, reply_shape)
                 progressed == update_challenge_progress(counted, today, "practice", 1)
             IN  [store |-> ai.store, cache |-> ai.cache, doc |-> progressed.doc,
                  talked |-> TRUE, prompt |-> ai.prompt,
                  response |-> IF tts = Raises THEN ErrorResponse
                               ELSE OkResponse("reply", <<AudioFile>>)]

\* app.py 1760-1797: [store, cache, doc, talked, response]
process(store, cache, doc, today, user_id, roleplay, turn, reply_shape, llm, tts) ==
    IF llm = Raises
    THEN [store |-> store, cache |-> cache, doc |-> doc, talked |-> FALSE,
          prompt |-> EmptyText, response |-> ErrorResponse]
    ELSE LET ai == IF roleplay # ""
                   THEN roleplay_coach(store, cache, roleplay, user_id, turn, reply_shape)
                   ELSE english_coach(store, cache, user_id, turn, reply_shape)
             counted == increment_activity(
                            doc, IF roleplay # "" THEN "roleplay" ELSE "conversation", 1)
             progressed == update_challenge_progress(counted, today, "practice", 1)
         IN  [store |-> ai.store, cache |-> ai.cache, doc |-> progressed.doc,
              talked |-> TRUE, prompt |-> ai.prompt,
              response |-> IF tts = Raises THEN ErrorResponse
                           ELSE OkResponse("reply", <<AudioFile>>)]

\* the except branches of repeat_sentence and spell_word
fallback_response(content, tts3, tts4) ==
    IF tts3 = Returns /\ tts4 = Returns
    THEN OkResponse(content, <<AudioFile, AudioFile>>)
    ELSE OkResponse(content, <<NullAudio, NullAudio>>)

\* app.py 1800-1830; tts holds the outcomes of the four speak_to_file calls
repeat_sentence(tts) ==
    IF tts[1] = Returns /\ tts[2] = Returns
    THEN OkResponse("sentence", <<AudioFile, AudioFile>>)
    ELSE fallback_response("The cat sat on the mat.", tts[3], tts[4])

\* app.py 1899-1932; llm is the outcome of get_word_sentence_usage
spell_word(llm, tts) ==
    IF llm = Returns /\ tts[1] = Returns /\ tts[2] = Returns
    THEN OkResponse("word", <<AudioFile, AudioFile>>)
    ELSE fallback_response("cat", tts[3], tts[4])


(***************************************************************************)
(* Practice attempts: /check_repeat (app.py 1832-1897) and /check_spelling *)
(* (app.py 1899-2004).  A similarity score is the fraction                 *)
(* SequenceMatcher.ratio() computes, 2 * matches / length (1 for two empty *)
(* strings), kept exact and compared as the code compares it.              *)
(***************************************************************************)
ratio(matches, length) ==
    IF length = 0 THEN [num |-> 1, den |-> 1]
    ELSE [num |-> 2 * matches, den |-> length]

\* score > percent / 100
Above(score, percent) == 100 * score.num > percent * score.den

\* score >= percent / 100
AtLeast(score, percent) == 100 * score.num >= percent * score.den

\* log_mistake (database.py 168-180): existing user
log_mistake(doc, mistake_type) ==
    [doc EXCEPT !.mistakes[mistake_type] = Min(@ + 1, MistakesKept),
                !.mistakes.total = @ + 1]

repeat_stars_above(score) ==
    IF Above(score, 90) THEN 3
    ELSE IF Above(score, 75) THEN 2
    ELSE IF Above(score, 60) THEN 1
    ELSE 0

\* app.py 1844-1855
repeat_stars(score) ==
    IF AtLeast(score, 90) THEN 3
    ELSE IF AtLeast(score, 75) THEN 2
    ELSE IF AtLeast(score, 60) THEN 1
    ELSE 0

\* app.py 1944-1960; the two strings are equal exactly when all of both
\* is matched
spelling_stars(score) ==
    IF score.num = score.den THEN 3
    ELSE IF AtLeast(score, 80) THEN 2
    ELSE IF AtLeast(score, 50) THEN 1
    ELSE 0

xp_multiplier_flat(difficulty) == 1

\* {'easy': 1, 'medium': 2, 'hard': 3}.get(difficulty, 1)
xp_multiplier(difficulty) ==
    CASE difficulty = "easy" -> 1
      [] difficulty = "medium" -> 2
      [] difficulty = "hard" -> 3
      [] OTHER -> 1

\* the response fields the stage logic fills; level_info is <<>> for None
AttemptResponse(stars, level_info, stage_complete, difficulty, xp_awarded) ==
    [stars |-> stars, level_info |-> level_info, stars_saved |-> stage_complete,
     xp_multiplier |-> xp_multiplier(difficulty), xp_awarded |-> xp_awarded]

\* result: the document after the request, the response, and the awards
\* passed to save_user_progress
check_repeat(doc, today, in_session, score, stage_complete, accumulated_stars, difficulty) ==
    LET stars == repeat_stars(score)
        xp_to_award == (accumulated_stars + stars) * xp_multiplier(difficulty)
        saves == stage_complete /\ in_session
    IN  With(IF saves THEN save_user_progress(doc, today, xp_to_award, "repeat")
                      ELSE [doc |-> doc, ret |-> <<>>], LAMBDA saved :
        With(IF ~AtLeast(score, 60) /\ in_session
             THEN log_mistake(saved.doc, "pronunciation") ELSE saved.doc, LAMBDA d1 :
        With(IF AtLeast(score, 80) /\ in_session
             THEN increment_activity(
                      update_challenge_progress(d1, today, "mastery", 1).doc,
                      "high_pronunciation", 1)
             ELSE d1, LAMBDA d2 :
            [doc |-> IF AtLeast(score, 60) /\ in_session
                     THEN increment_activity(d2, "repeat", 1) ELSE d2,
             response |-> AttemptResponse(stars,
                              IF saves THEN <<saved.ret>> ELSE <<>>,
                              stage_complete, difficulty,
                              IF saves THEN xp_to_award ELSE 0),
             passed |-> IF saves THEN <<xp_to_award>> ELSE <<>>])))

check_spelling(doc, today, in_session, score, stage_complete, accumulated_stars, difficulty) ==
    LET is_correct == score.num = score.den
        stars == spelling_stars(score)
        xp_to_award == (accumulated_stars + stars) * xp_multiplier(difficulty)
        saves == stage_complete /\ in_session
    IN  With(IF ~is_correct /\ in_session
             THEN log_mistake(doc, "spelling") ELSE doc, LAMBDA d1 :
        With(IF saves THEN save_user_progress(d1, today, xp_to_award, "spellbee")
                      ELSE [doc |-> d1, ret |-> <<>>], LAMBDA saved :
            [doc |-> IF is_correct /\ in_session
                     THEN increment_activity(saved.doc, "spelling", 1) ELSE saved.doc,
             response |-> AttemptResponse(stars,
                              IF saves THEN <<saved.ret>> ELSE <<>>,
                              stage_complete, difficulty,
                              IF saves THEN xp_to_award ELSE 0),
             passed |-> IF saves THEN <<xp_to_award>> ELSE <<>>]))

(***************************************************************************)
(* Admin routes (app.py 2232-2250, 2289-2418, 2513-2523) and the store     *)
(* functions they call (database.py 493-499, 654-745).  A result is the    *)
(* two collections after the request and the response; a redirect to the   *)
(* admin login page is a response without success.                         *)
(***************************************************************************)
Unset == "unset"

update_one(collection, id, field, value) ==
    [collection EXCEPT !.docs =
        [i \in 1..Len(collection.docs) |->
            IF collection.docs[i]._id = id
            THEN [collection.docs[i] EXCEPT ![field] = value]
            ELSE collection.docs[i]]]

delete_one(collection, id) ==
    [collection EXCEPT !.docs = SelectSeq(collection.docs, LAMBDA d : d._id # id)]

approve_teacher(teachers, teacher_id) ==
    IF teachers = None THEN [teachers |-> teachers, ret |-> FALSE]
    ELSE [teachers |-> update_one(teachers, teacher_id, "status", "approved"), ret |-> TRUE]

reject_teacher(teachers, teacher_id) ==
    IF teachers = None THEN [teachers |-> teachers, ret |-> FALSE]
    ELSE [teachers |-> update_one(teachers, teacher_id, "status", "rejected"), ret |-> TRUE]

delete_teacher(teachers, teacher_id) ==
    IF teachers = None THEN [teachers |-> teachers, ret |-> FALSE]
    ELSE [teachers |-> delete_one(teachers, teacher_id), ret |-> TRUE]

delete_user(users, user_id) ==
    IF users = None THEN [users |-> users, ret |-> FALSE]
    ELSE [users |-> delete_one(users, user_id), ret |-> TRUE]

admin_reset_user_password(users, user_id, new_password) ==
    IF users = None THEN [users |-> users, ret |-> FALSE]
    ELSE [users |-> update_one(users, user_id, "password", hash_password(new_password)),
          ret |-> TRUE]

admin_reset_teacher_password(teachers, teacher_id, new_password) ==
    IF teachers = None THEN [teachers |-> teachers, ret |-> FALSE]
    ELSE [teachers |-> update_one(
                           update_one(teachers, teacher_id, "password",
                                      hash_password(new_password)),
                           teacher_id, "password_reset_requested", FALSE),
          ret |-> TRUE]

get_teachers_requesting_password_reset(teachers) ==
    IF teachers = None THEN <<>>
    ELSE SelectSeq(teachers.docs, LAMBDA t : t.password_reset_requested)

\* database.py 717-745: every record that is not a teacher's is migrated
migrate_all_users_levels_and_badges(users) ==
    IF users = None THEN [users |-> users, ret |-> [migrated |-> 0, errors |-> 0]]
    ELSE [users |-> [users EXCEPT !.docs =
                        [i \in 1..Len(users.docs) |->
                            IF users.docs[i].user_type # "teacher"
                            THEN [users.docs[i] EXCEPT !.doc = migrate_user(@)]
                            ELSE users.docs[i]]],
          ret |-> [migrated |-> Len(SelectSeq(users.docs,
                                              LAMBDA u : u.user_type # "teacher")),
                   errors |-> 0]]

\* the guard of admin_migrate_users written as admin_required writes it
unauthorized_unless_admin(sess) == sess.user_id = <<>> \/ sess.role # "admin"

\* app.py 2235
unauthorized(sess) == sess.user_id = <<>> \/ sess.role # "teacher"

\* app.py 2242-2250: the decorated route runs
admin_required(sess) == ~(sess.user_id = <<>> \/ sess.role # "admin")

Redirected == [success |-> FALSE, message |-> "redirect to /admin/login"]

Json(success, message) == [success |-> success, message |-> message]

AdminResult(users, teachers, response) ==
    [users |-> users, teachers |-> teachers, response |-> response]

admin_migrate_users(sess, users, teachers) ==
    IF unauthorized(sess) THEN AdminResult(users, teachers, Json(FALSE, "Unauthorized"))
    ELSE With(migrate_all_users_levels_and_badges(users), LAMBDA r :
            AdminResult(r.users, teachers,
                        [success |-> TRUE, message |-> "", result |-> r.ret]))

\* the counts of the stats; status reads 'approved' where a record has none
api_admin_stats(sess, users, teachers) ==
    IF ~admin_required(sess) THEN AdminResult(users, teachers, Redirected)
    ELSE AdminResult(users, teachers,
            [success |-> TRUE, message |-> "",
             stats |-> [total_students |-> Len(users.docs),
                        total_teachers |-> Len(SelectSeq(teachers.docs,
                                               LAMBDA t : t.status = "approved")),
                        pending_teachers |-> Len(SelectSeq(teachers.docs,
                                                 LAMBDA t : t.status = "pending")),
                        rejected_teachers |-> Len(SelectSeq(teachers.docs,
                                                  LAMBDA t : t.status = "rejected"))]])

\* the ids listed, in the order of the collection (the sort is by
\* last_active, a field these records do not carry)
api_admin_students(sess, users, teachers) ==
    IF ~admin_required(sess) THEN AdminResult(users, teachers, Redirected)
    ELSE AdminResult(users, teachers,
            [success |-> TRUE, message |-> "",
             students |-> [i \in 1..Len(users.docs) |-> users.docs[i]._id]])

api_admin_teachers(sess, users, teachers) ==
    IF ~admin_required(sess) THEN AdminResult(users, teachers, Redirected)
    ELSE AdminResult(users, teachers,
            [success |-> TRUE, message |-> "",
             teachers |-> [i \in 1..Len(teachers.docs) |-> teachers.docs[i]._id]])

api_admin_password_reset_requests(sess, users, teachers) ==
    IF ~admin_required(sess) THEN AdminResult(users, teachers, Redirected)
    ELSE With(get_teachers_requesting_password_reset(teachers), LAMBDA found :
            AdminResult(users, teachers,
                [success |-> TRUE, message |-> "",
                 requests |-> [i \in 1..Len(found) |-> found[i]._id]]))

api_admin_approve_teacher(sess, users, teachers, teacher_id) ==
    IF ~admin_required(sess) THEN AdminResult(users, teachers, Redirected)
    ELSE IF teacher_id = <<>>
    THEN AdminResult(users, teachers, Json(FALSE, "No teacher ID provided."))
    ELSE With(approve_teacher(teachers, teacher_id), LAMBDA r :
            AdminResult(users, r.teachers,
                IF r.ret THEN Json(TRUE, "Teacher approved successfully.")
                ELSE Json(FALSE, "Failed to approve teacher.")))

api_admin_reject_teacher(sess, users, teachers, teacher_id) ==
    IF ~admin_required(sess) THEN AdminResult(users, teachers, Redirected)
    ELSE IF teacher_id = <<>>
    THEN AdminResult(users, teachers, Json(FALSE, "No teacher ID provided."))
    ELSE With(reject_teacher(teachers, teacher_id), LAMBDA r :
            AdminResult(users, r.teachers,
                IF r.ret THEN Json(TRUE, "Teacher rejected.")
                ELSE Json(FALSE, "Failed to reject teacher.")))

api_admin_delete_teacher(sess, users, teachers, teacher_id) ==
    IF ~admin_required(sess) THEN AdminResult(users, teachers, Redirected)
    ELSE IF teacher_id = <<>>
    THEN AdminResult(users, teachers, Json(FALSE, "No teacher ID provided."))
    ELSE With(delete_teacher(teachers, teacher_id), LAMBDA r :
            AdminResult(users, r.teachers,
                IF r.ret THEN Json(TRUE, "Teacher deleted.")
                ELSE Json(FALSE, "Failed to delete teacher.")))

api_admin_delete_student(sess, users, teachers, student_id) ==
    IF ~admin_required(sess) THEN AdminResult(users, teachers, Redirected)
    ELSE IF student_id = <<>>
    THEN AdminResult(users, teachers, Json(FALSE, "No student ID provided."))
    ELSE With(delete_user(users, student_id), LAMBDA r :
            AdminResult(r.users, teachers,
                IF r.ret THEN Json(TRUE, "Student deleted.")
                ELSE Json(FALSE, "Failed to delete student.")))

\* a password is the sequence of its characters
api_admin_reset_student_password(sess, users, teachers, student_id, new_password) ==
    IF ~admin_required(sess) THEN AdminResult(users, teachers, Redirected)
    ELSE IF student_id = <<>> \/ new_password = <<>>
    THEN AdminResult(users, teachers, Json(FALSE, "Missing student ID or new password."))
    ELSE IF Len(new_password) < 4
    THEN AdminResult(users, teachers, Json(FALSE, "Password must be at least 4 characters."))
    ELSE With(admin_reset_user_password(users, student_id, new_password), LAMBDA r :
            AdminResult(r.users, teachers,
                IF r.ret THEN Json(TRUE, "Student password reset successfully.")
                ELSE Json(FALSE, "Failed to reset password.")))

api_admin_reset_teacher_password_route(sess, users, teachers, teacher_id, new_password) ==
    IF ~admin_required(sess) THEN AdminResult(users, teachers, Redirected)
    ELSE IF teacher_id = <<>> \/ new_password = <<>>
    THEN AdminResult(users, teachers, Json(FALSE, "Missing teacher ID or new password."))
    ELSE IF Len(new_password) # 6
    THEN AdminResult(users, teachers, Json(FALSE, "Teacher password must be exactly 6 characters."))
    ELSE With(admin_reset_teacher_password(teachers, teacher_id, new_password), LAMBDA r :
            AdminResult(users, r.teachers,
                IF r.ret THEN Json(TRUE, "Teacher password reset successfully.")
                ELSE Json(FALSE, "Failed to reset password.")))

(***************************************************************************)
(* Teacher accounts: the teacher branches of signup (app.py 1539-1567) and *)
(* login (1467-1494).  A username and a password are the sequences of      *)
(* their characters; a document without status has status Unset.           *)
(***************************************************************************)
UsernameLength == 6

get_teacher_by_username(teachers, username) ==
    IF teachers = None THEN <<>>
    ELSE LET found == SelectSeq(teachers.docs, LAMBDA t : t.username = username)
         IN  IF found = <<>> THEN <<>> ELSE <<found[1]>>

\* database.py 636-652; a field the document lacks reads as FALSE
create_teacher_request(teachers, teacher_id, username, password, name) ==
    IF teachers = None \/ \E i \in 1..Len(teachers.docs) : teachers.docs[i]._id = teacher_id
    THEN [teachers |-> teachers, ret |-> <<>>]
    ELSE LET teacher == [_id |-> teacher_id, username |-> username,
                         password |-> hash_password(password),
                         status |-> "pending", password_reset_requested |-> FALSE]
         IN  [teachers |-> [teachers EXCEPT !.docs = Append(@, teacher)],
              ret |-> <<teacher>>]

\* [teachers, response]
teacher_signup(teachers, data) ==
    IF ~(data.username # <<>> /\ data.password # <<>> /\ data.name # "")
    THEN [teachers |-> teachers, response |-> Json(FALSE, "Please fill in all fields.")]
    ELSE IF ~(Len(data.username) = UsernameLength /\ Len(data.password) = UsernameLength)
    THEN [teachers |-> teachers,
          response |-> Json(FALSE, "Username and Password must be exactly 6 characters each.")]
    ELSE IF get_teacher_by_username(teachers, data.username) # <<>>
    THEN [teachers |-> teachers,
          response |-> Json(FALSE, "Username already exists. Please choose another.")]
    ELSE With(create_teacher_request(teachers, <<"teacher_">> \o data.username,
                                     data.username, data.password, data.name),
              LAMBDA r :
                [teachers |-> r.teachers,
                 response |-> IF r.ret # <<>>
                              THEN Json(TRUE, "Registration submitted!")
                              ELSE Json(FALSE, "Error submitting registration.")])

\* the teacher branch of login without the check of the approval status
teacher_login_any_status(teachers, sess, username, password) ==
    With(get_teacher_by_username(teachers, username), LAMBDA found :
        IF found = <<>>
        THEN [teachers |-> teachers, session |-> sess,
              response |-> Json(FALSE, "Teacher username not found.")]
        ELSE IF check_pw(found[1].password, password)
        THEN [teachers |-> IF is_hashed(found[1].password) THEN teachers
                           ELSE update_one(teachers, found[1]._id, "password",
                                           hash_password(password)),
              session |-> [role |-> "teacher", user_id |-> found[1]._id],
              response |-> Json(TRUE, "")]
        ELSE [teachers |-> teachers, session |-> sess,
              response |-> Json(FALSE, "Incorrect password.")])

\* [teachers, session, response]
teacher_login(teachers, sess, username, password) ==
    With(get_teacher_by_username(teachers, username), LAMBDA found :
        IF found = <<>>
        THEN [teachers |-> teachers, session |-> sess,
              response |-> Json(FALSE, "Teacher username not found.")]
        ELSE LET teacher == found[1]
                 status == IF teacher.status = Unset THEN "approved" ELSE teacher.status
             IN  IF status = "pending"
                 THEN [teachers |-> teachers, session |-> sess,
                       response |-> Json(FALSE, "Your account is pending admin approval.")]
                 ELSE IF status = "rejected"
                 THEN [teachers |-> teachers, session |-> sess,
                       response |-> Json(FALSE, "Your account registration was rejected.")]
                 ELSE IF check_pw(teacher.password, password)
                 THEN [teachers |-> IF is_hashed(teacher.password) THEN teachers
                                    ELSE update_one(teachers, teacher._id, "password",
                                                    hash_password(password)),
                       session |-> [role |-> "teacher", user_id |-> teacher._id],
                       response |-> Json(TRUE, "")]
                 ELSE [teachers |-> teachers, session |-> sess,
                       response |-> Json(FALSE, "Incorrect password.")])

(***************************************************************************)
(* save_user_progress (app.py 108-149) and update_challenge_progress       *)
(* (database.py 223-249) one store access at a time.  A request in         *)
(* progress is its local variables and rest, the accesses it has still to  *)
(* make; Access makes the first of them on the stored document d and       *)
(* gives the document and the request after it.                            *)
(***************************************************************************)
NoRequest ==
    [rest |-> <<>>, stars_earned |-> 0, mode |-> "", challenge_type |-> "",
     user |-> create_user, challenges |-> EmptyChallenges, xp_earned |-> 0,
     earned |-> <<>>, awarded |-> <<>>]

\* a request that makes no further access keeps only the badge ids its
\* evaluations have returned
Done(req) == [NoRequest EXCEPT !.awarded = req.awarded]

\* the accesses of update_challenge_progress up to its first find_one
ChallengeProgram == <<"get_daily_challenges.find_one">>

\* lines 128-138 of save_user_progress
DispatchProgram(mode, stars_earned) ==
    CASE mode = "repeat" ->
           <<"increment_activity.inc", "check_and_award_badges.find_one">> \o ChallengeProgram
      [] mode = "spellbee" ->
           IF stars_earned > 0
           THEN <<"increment_activity.inc", "check_and_award_badges.find_one">>
           ELSE <<>>
      [] mode \in {"conversation", "roleplay"} ->
           <<"increment_activity.inc", "check_and_award_badges.find_one">> \o ChallengeProgram
      [] OTHER -> <<>>

SaveProgram(mode, stars_earned) ==
    <<"get_user_by_id.find_one", "update_user_xp.set", "check_and_award_badges.find_one">>
    \o (IF stars_earned > 0 THEN <<"update_weekly_xp.inc">> ELSE <<>>)
    \o <<"update_user_mode_stats.inc">>
    \o DispatchProgram(mode, stars_earned)

ActivityOf(mode) ==
    CASE mode = "spellbee" -> "spelling"
      [] OTHER -> mode

ChallengeOf(req) ==
    CASE req.mode = "repeat" -> "learning"
      [] req.mode \in {"conversation", "roleplay"} -> "practice"
      [] OTHER -> req.challenge_type

\* a write of total_xp: the value read earlier plus the XP earned
AddToRead(d, read, xp) == read.total_xp + xp

Access(req, d, day) ==
    LET label == Head(req.rest)
        after == Tail(req.rest)
    IN  CASE label = "get_user_by_id.find_one" ->
               [doc |-> d, req |-> [req EXCEPT !.rest = after, !.user = d]]
          [] label = "update_user_xp.set" ->
               LET new_xp == AddToRead(d, req.user, req.stars_earned)
               IN  [doc |-> [d EXCEPT !.total_xp = new_xp,
                                      !.level = calculate_level(new_xp),
                                      !.total_stars = req.user.total_stars + req.stars_earned],
                    req |-> [req EXCEPT !.rest = after]]
          [] label = "check_and_award_badges.find_one" ->
               LET achievements == IF d.ach.kind = "dict" THEN d.ach
                                   ELSE init_user_achievements
                   new_badges == NewBadges(d, achievements, achievements.badges_earned)
               IN  [doc |-> d,
                    req |-> [req EXCEPT
                               !.rest = (IF d.ach.kind = "corrupt"
                                         THEN <<"check_and_award_badges.set_achievements">>
                                         ELSE <<>>)
                                        \o (IF new_badges # <<>>
                                            THEN <<"check_and_award_badges.set_badges_earned">>
                                            ELSE <<>>)
                                        \o after,
                               !.earned = IF new_badges # <<>>
                                          THEN ExtendEarned(achievements.badges_earned,
                                                            new_badges)
                                          ELSE <<>>,
                               !.awarded = @ \o new_badges]]
          [] label = "check_and_award_badges.set_achievements" ->
               [doc |-> [d EXCEPT !.ach = init_user_achievements],
                req |-> [req EXCEPT !.rest = after]]
          [] label = "check_and_award_badges.set_badges_earned" ->
               [doc |-> IF d.ach.kind = "corrupt" THEN d
                        ELSE [d EXCEPT !.ach.kind = "dict",
                                       !.ach.badges_earned = req.earned],
                req |-> [req EXCEPT !.rest = after, !.earned = <<>>]]
          [] label = "update_weekly_xp.inc" ->
               [doc |-> update_weekly_xp(d, day, req.stars_earned),
                req |-> [req EXCEPT !.rest = after]]
          [] label = "update_user_mode_stats.inc" ->
               [doc |-> update_user_mode_stats(d, req.mode, req.stars_earned),
                req |-> [req EXCEPT !.rest = after]]
          [] label = "increment_activity.inc" ->
               IF d.ach.kind = "corrupt"
               THEN [doc |-> d, req |-> [req EXCEPT !.rest = Tail(after)]]
               ELSE [doc |-> [d EXCEPT !.ach.kind = "dict",
                                       !.ach.counts[ActivityOf(req.mode) \o "_count"] = @ + 1],
                     req |-> [req EXCEPT !.rest = after]]
          [] label = "get_daily_challenges.find_one" ->
               LET rolled == d.dc.week # get_week_key(day)
                   new_streak == RolloverStreak(d.dc.streak,
                                                d.dc.completed_today = AllDoneCount)
                   fresh == [week |-> get_week_key(day), slots |-> NewSlots,
                             completed_today |-> 0, streak |-> new_streak]
               IN  [doc |-> d,
                    req |-> [req EXCEPT
                               !.challenges = IF rolled THEN fresh ELSE d.dc,
                               !.rest = (IF rolled /\ new_streak >= StreakBadgeMin
                                         THEN <<"get_daily_challenges.set_challenge_streak",
                                                "check_and_award_badges.find_one">>
                                         ELSE <<>>)
                                        \o (IF rolled
                                            THEN <<"get_daily_challenges.set_daily_challenges">>
                                            ELSE <<>>)
                                        \o <<"update_challenge_progress.set_daily_challenges">>]]
          [] label = "get_daily_challenges.set_challenge_streak" ->
               IF d.ach.kind = "corrupt"
               THEN [doc |-> d, req |-> Done(req)]
               ELSE [doc |-> [d EXCEPT !.ach.kind = "dict",
                                       !.ach.challenge_streak = req.challenges.streak],
                     req |-> [req EXCEPT !.rest = after]]
          [] label = "get_daily_challenges.set_daily_challenges" ->
               [doc |-> [d EXCEPT !.dc = req.challenges],
                req |-> [req EXCEPT !.rest = after]]
          [] label = "update_challenge_progress.set_daily_challenges" ->
               LET challenges == req.challenges
                   key == type_map(ChallengeOf(req))
                   advance == key # 0 /\ ~challenges.slots[key].completed
                   current == IF advance
                              THEN Min(challenges.slots[key].target,
                                       challenges.slots[key].current + 1)
                              ELSE 0
                   reached == advance /\ current >= challenges.slots[key].target
                   slots1 == IF advance
                             THEN [challenges.slots EXCEPT ![key].current = current,
                                                           ![key].completed = reached]
                             ELSE challenges.slots
                   completed_today == IF reached THEN challenges.completed_today + 1
                                      ELSE challenges.completed_today
                   xp_slot == IF reached THEN challenges.slots[key].xp ELSE 0
                   xp_earned == IF BonusDue(completed_today)
                                THEN xp_slot + AllDoneBonus ELSE xp_slot
                   written == [challenges EXCEPT !.slots = slots1,
                                                 !.completed_today = completed_today]
               IN  [doc |-> [d EXCEPT !.dc = written],
                    req |-> IF xp_earned > 0
                            THEN [req EXCEPT !.challenges = written,
                                             !.xp_earned = xp_earned,
                                             !.rest = <<"update_challenge_progress.find_one",
                                                        "update_challenge_progress.set_total_xp",
                                                        "check_and_award_badges.find_one">>]
                            ELSE Done(req)]
          [] label = "update_challenge_progress.find_one" ->
               [doc |-> d, req |-> [req EXCEPT !.rest = after, !.user = d]]
          [] label = "update_challenge_progress.set_total_xp" ->
               LET new_xp == AddToRead(d, req.user, req.xp_earned)
               IN  [doc |-> [d EXCEPT !.total_xp = new_xp,
                                      !.level = calculate_level_from_xp(new_xp)],
                    req |-> [req EXCEPT !.rest = after]]

\* a request that has made its last access
Finished(req) == IF req.rest = <<>> THEN Done(req) ELSE req

(***************************************************************************)
(* State machine: one student document and the conversation contexts.                                  *)
(***************************************************************************)
VARIABLES
    doc,      \* the student's document in the users collection
    today,    \* the current date, as a day number (day 0 is a Monday)
    last,     \* the last operation, its inputs and what it returned
    nops,     \* operations handled since start-up (counted in Spec only)
    conversations,          \* the conversations collection: user, mode -> text
    conversation_contexts,  \* the in-memory cache of app.py 53
    said,     \* turns taken so far, per user and mode
    shape,    \* the line layout of the coach's replies
    prompt,   \* the last turn: its user, mode and the context in its prompt
    users_collection,  \* the users collection: its documents in insertion order
    teachers_collection,  \* the teachers collection
    session,  \* the session of the browser making the requests
    requests  \* the requests in progress, by handler thread

vars == <<doc, today, last, nops,
          conversations, conversation_contexts, said, shape, prompt,
          users_collection, teachers_collection, session, requests>>

avars == <<teachers_collection, session, requests>>

\* no teacher stored, nobody logged in (an id is the sequence of its
\* characters, <<>> where the request or the session has none)
NoSession == [role |-> Unset, user_id |-> <<>>]

Threads == {1, 2}

AdminIdle ==
    /\ teachers_collection = Collection(<<>>)
    /\ session = NoSession
    /\ requests = [t \in Threads |-> NoRequest]

cvars == <<conversations, conversation_contexts, said, shape, prompt>>

NoTexts == [u \in Users |-> [m \in ModeKeys |-> EmptyText]]
NoPrompt == [user |-> "", mode |-> "", context |-> EmptyText]

\* no conversation has been held
ConvIdle ==
    /\ conversations = NoTexts
    /\ conversation_contexts = NoTexts
    /\ said = [u \in Users |-> [m \in ModeKeys |-> 0]]
    /\ shape = <<1>>
    /\ prompt = NoPrompt
    /\ users_collection = Collection(<<>>)
    /\ AdminIdle

Uncounted == UNCHANGED <<nops, conversations, conversation_contexts, said, shape, prompt,
                         users_collection, avars>>

StageAwards == {0 - 6, 0, 6, 20, 30}
Increments == {1, 5}
ChallengeTypes == {"practice", "learning", "mastery", "bonus"}
ActivityTypes == {"conversation", "roleplay", "repeat", "spelling",
                  "vocabulary", "high_pronunciation"}
PriorWeek == 0 - 1
StartDay == DaysPerWeek - 1

DoneSlots == [i \in 1..3 |-> [NewSlots[i] EXCEPT !.current = NewSlots[i].target,
                                                  !.completed = TRUE]]

\* Documents found in the collection when the application starts: a new
\* student, documents written before achievements existed, and documents
\* left by earlier sessions (as the operations named with them leave them).
LegacyNoAchievements(xp) ==
    [create_user EXCEPT !.ach = NoAchievements, !.total_xp = xp, !.total_stars = xp]

LegacyCorrupt ==
    [create_user EXCEPT !.ach = CorruptAchievements]

LegacyStreak ==
    [create_user EXCEPT !.dc = [week |-> PriorWeek, slots |-> DoneSlots,
                                completed_today |-> AllDoneCount,
                                streak |-> StreakBadgeMin - 1]]

\* after save_user_progress(user, 24, "other") on a new student
NearLevel ==
    [create_user EXCEPT !.total_xp = BaseGap - 1, !.total_stars = BaseGap - 1,
                        !.mode_stats["other"] = [stars |-> BaseGap - 1, sessions |-> 1],
                        !.weekly_xp[0] = BaseGap - 1]

\* after update_challenge_progress has completed practice and learning
TwoDone ==
    [create_user EXCEPT !.total_xp = 2 * ChallengeXP,
                        !.dc = [week |-> 0,
                                slots |-> <<DoneSlots[1], DoneSlots[2], NewSlots[3]>>,
                                completed_today |-> 2,
                                streak |-> 0]]

\* and mastery stands one short of its target
AlmostAllDone == [TwoDone EXCEPT !.dc.slots[3].current = MasteryTarget - 1]

\* and four spelling attempts have been counted
FourSpelled == [AlmostAllDone EXCEPT !.ach.counts["spelling_count"] = 4]

\* after the call that completes mastery as the third challenge
AllDone ==
    [create_user EXCEPT !.total_xp = 3 * ChallengeXP + AllDoneBonus,
                        !.level = 2,
                        !.ach.badges_earned = <<"level_2", "xp_25">>,
                        !.dc = [week |-> 0, slots |-> DoneSlots,
                                completed_today |-> AllDoneCount, streak |-> 0]]

\* after four coaching turns' increment_activity(user, 'conversation')
Chatty == [create_user EXCEPT !.ach.counts["conversation_count"] = 4]

\* after four coaching turns of this week (app.py 1781-1783)
PracticeDue ==
    [Chatty EXCEPT !.dc = [week |-> 0,
                           slots |-> <<[NewSlots[1] EXCEPT !.current = PracticeTarget - 1],
                                       NewSlots[2], NewSlots[3]>>,
                           completed_today |-> 0, streak |-> 0]]

\* after a first login the day before
LoggedInYesterday ==
    [create_user EXCEPT !.ach.daily_login_streak = 1, !.ach.max_login_streak = 1,
                        !.ach.last_login = StartDay - 1]

\* after logins on two consecutive days, the last one two days ago
LoggedInEarlier ==
    [create_user EXCEPT !.ach.daily_login_streak = 2, !.ach.max_login_streak = 2,
                        !.ach.last_login = StartDay - 2]

LegacyDocs == {create_user, LegacyNoAchievements(10), LegacyNoAchievements(30),
               LegacyCorrupt, LegacyStreak}

SessionDocs == {NearLevel, AlmostAllDone, AllDone, Chatty, PracticeDue,
                LoggedInYesterday, LoggedInEarlier}

SumCounts(d) ==
    d.ach.counts["conversation_count"] + d.ach.counts["roleplay_count"]
    + d.ach.counts["repeat_count"] + d.ach.counts["spelling_count"]
    + d.ach.counts["vocabulary_count"] + d.ach.counts["high_pronunciation_count"]

SumSessions(d) ==
    d.mode_stats["repeat"].sessions + d.mode_stats["spellbee"].sessions
    + d.mode_stats["conversation"].sessions + d.mode_stats["roleplay"].sessions
    + d.mode_stats["other"].sessions

InBounds(d) ==
    /\ d.total_xp <= MaxXP
    /\ SumCounts(d) <= MaxActs
    /\ SumSessions(d) <= MaxStages

NoRet == [xp |-> 0, new |-> <<>>, leveled_up |-> FALSE, new_level |-> 0, old_level |-> 0]

Op(name, arg, n) == [op |-> name, arg |-> arg, n |-> n]

Started == [call |-> Op("startup", "", 0), ret |-> NoRet]

Init ==
    /\ today = StartDay
    /\ \E raw \in LegacyDocs \cup SessionDocs : doc = startup(raw, StartDay)
    /\ last = Started
    /\ nops = 0
    /\ ConvIdle

SaveUserProgress(stars_earned, mode) ==
    LET r == save_user_progress(doc, today, stars_earned, mode)
    IN  /\ InBounds(r.doc)
        /\ doc' = r.doc
        /\ last' = [call |-> Op("save_user_progress", mode, stars_earned),
                    ret |-> [NoRet EXCEPT !.leveled_up = r.ret.leveled_up,
                                          !.new_level = r.ret.new_level,
                                          !.old_level = r.ret.old_level,
                                          !.xp = r.dispatched]]
        /\ UNCHANGED today

UpdateChallengeProgress(challenge_type, increment) ==
    LET r == update_challenge_progress(doc, today, challenge_type, increment)
    IN  /\ InBounds(r.doc)
        /\ doc' = r.doc
        /\ last' = [call |-> Op("update_challenge_progress", challenge_type, increment),
                    ret |-> [NoRet EXCEPT !.xp = r.ret]]
        /\ UNCHANGED today

\* n is 1 when the call found a stale (or no) challenge set
GetDailyChallenges ==
    /\ doc' = get_daily_challenges(doc, today).doc
    /\ last' = [call |-> Op("get_daily_challenges", "",
                            IF doc.dc.week # get_week_key(today) THEN 1 ELSE 0),
                ret |-> NoRet]
    /\ UNCHANGED today

IncrementActivity(activity_type) ==
    LET d == increment_activity(doc, activity_type, 1)
    IN  /\ InBounds(d)
        /\ doc' = d
        /\ last' = [call |-> Op("increment_activity", activity_type, 1), ret |-> NoRet]
        /\ UNCHANGED today

Login ==
    /\ doc' = login(doc, today)
    /\ last' = [call |-> Op("login", "", 0), ret |-> NoRet]
    /\ UNCHANGED today

\* n counts the consecutive direct calls, up to 2
CheckAndAwardBadges ==
    LET r == check_and_award_badges(doc)
        again == last.call.op = "check_and_award_badges"
    IN  /\ doc' = r.doc
        /\ last' = [call |-> Op("check_and_award_badges", "", IF again THEN 2 ELSE 1),
                    ret |-> [NoRet EXCEPT !.new = r.ret]]
        /\ UNCHANGED today

EnsureBadges ==
    /\ doc' = api_ensure_badges(doc)
    /\ last' = [call |-> Op("api_ensure_badges", "", 0), ret |-> NoRet]
    /\ UNCHANGED today

Restart ==
    /\ doc' = startup(doc, today)
    /\ last' = Started
    /\ UNCHANGED today

NextDay ==
    /\ get_week_key(today + 1) <= MaxWeek
    /\ today' = today + 1
    /\ last' = [call |-> Op("next_day", "", 0), ret |-> NoRet]
    /\ UNCHANGED doc

NextWeek ==
    /\ get_week_key(today + DaysPerWeek) <= MaxWeek
    /\ today' = today + DaysPerWeek
    /\ last' = [call |-> Op("next_week", "", 0), ret |-> NoRet]
    /\ UNCHANGED doc

\* one more operation of a run of at most MaxOps operations
Counted == nops < MaxOps /\ nops' = nops + 1 /\ UNCHANGED <<cvars, users_collection, avars>>

Next ==
    \/ Counted /\ (\E s \in StageAwards, m \in ModeNames : SaveUserProgress(s, m))
    \/ Counted /\ (\E t \in ChallengeTypes, i \in Increments : UpdateChallengeProgress(t, i))
    \/ Counted /\ GetDailyChallenges
    \/ Counted /\ (\E a \in ActivityTypes : IncrementActivity(a))
    \/ Counted /\ Login
    \/ Counted /\ CheckAndAwardBadges
    \/ Counted /\ EnsureBadges
    \/ Counted /\ Restart
    \/ Counted /\ NextDay

Spec == Init /\ [][Next]_vars

(***************************************************************************)
(* The weekly challenge tracker alone, over whole weeks.                   *)
(***************************************************************************)
InitChallenge ==
    /\ today = StartDay
    /\ doc \in {startup(create_user, StartDay), startup(LegacyStreak, StartDay)}
    /\ last = Started
    /\ nops = 0
    /\ ConvIdle

NextChallenge ==
    \/ \E t \in ChallengeTypes, i \in Increments :
           UpdateChallengeProgress(t, i) /\ Uncounted
    \/ GetDailyChallenges /\ Uncounted
    \/ NextWeek /\ Uncounted

SpecChallenge == InitChallenge /\ [][NextChallenge]_vars

(***************************************************************************)
(* Badge evaluation alone.  It starts from the documents the start-up      *)
(* migration hands to check_and_award_badges: stats written by earlier     *)
(* versions, level already recomputed, badges not yet assigned.            *)
(***************************************************************************)
StatDoc(xp, conv, spell, earned) ==
    [create_user EXCEPT !.total_xp = xp, !.total_stars = xp,
                        !.level = calculate_level_from_xp(xp),
                        !.ach.counts["conversation_count"] = conv,
                        !.ach.counts["spelling_count"] = spell,
                        !.ach.badges_earned = earned]

BadgeDocs ==
    {StatDoc(xp, conv, spell, earned) :
        xp \in {0, 24, 25, 100}, conv \in {0, 4, 5}, spell \in {0, 5},
        earned \in {<<>>, <<"xp_25">>}}

InitBadges ==
    /\ today = StartDay
    /\ doc \in {d \in BadgeDocs : InBounds(d)}
    /\ last = Started
    /\ nops = 0
    /\ ConvIdle

NextBadges ==
    \/ CheckAndAwardBadges /\ Uncounted
    \/ \E a \in ActivityTypes : IncrementActivity(a) /\ Uncounted
    \/ EnsureBadges /\ Uncounted

SpecBadges == InitBadges /\ [][NextBadges]_vars

(***************************************************************************)
(* The conversation contexts alone.  One key is talked on until it has     *)
(* been trimmed; the other keys take a few turns.                          *)
(***************************************************************************)
ReplyShapes == {<<1>>, <<1, 1, 1>>, <<1, 0, 1, 0, 1>>}

Keys == Users \X ModeKeys

RECURSIVE TurnsOn(_, _)
TurnsOn(count, keys) ==
    IF keys = {} THEN 0
    ELSE LET k == CHOOSE x \in keys : TRUE
         IN  count[k[1]][k[2]] + TurnsOn(count, keys \ {k})

LongKeys == {<<"u1", "conversation">>, <<"u1", "roleplay_teacher">>}

\* one of LongKeys at a time is talked on at length, the other keys take
\* MaxSideTurns turns between them
MayTalk(user_id, mode) ==
    LET count == [said EXCEPT ![user_id][mode] = @ + 1]
    IN  /\ said[user_id][mode] * (1 + Len(shape)) < TrimLimit(mode) + MaxExtraLines
        /\ \E long \in LongKeys : TurnsOn(count, Keys \ {long}) <= MaxSideTurns

Turn(user_id, mode, r) ==
    /\ conversations' = r.store
    /\ conversation_contexts' = r.cache
    /\ said' = [said EXCEPT ![user_id][mode] = @ + 1]
    /\ prompt' = [user |-> user_id, mode |-> mode, context |-> r.prompt]
    /\ UNCHANGED <<doc, today, last, nops, shape, users_collection, avars>>

EnglishCoach(user_id) ==
    /\ MayTalk(user_id, "conversation")
    /\ Turn(user_id, "conversation",
            english_coach(conversations, conversation_contexts, user_id,
                          said[user_id]["conversation"] + 1, shape))

RoleplayCoach(user_id, roleplay_type) ==
    LET mode == context_key(roleplay_type)
    IN  /\ MayTalk(user_id, mode)
        /\ Turn(user_id, mode,
                roleplay_coach(conversations, conversation_contexts, roleplay_type,
                               user_id, said[user_id][mode] + 1, shape))

Logout(user_id) ==
    /\ conversation_contexts' = logout(conversation_contexts, user_id)
    /\ UNCHANGED <<doc, today, last, nops, conversations, said, shape, prompt,
                   users_collection, avars>>

InitConv ==
    /\ today = StartDay
    /\ doc = startup(create_user, StartDay)
    /\ last = Started
    /\ nops = 0
    /\ conversations = NoTexts
    /\ conversation_contexts = NoTexts
    /\ said = [u \in Users |-> [m \in ModeKeys |-> 0]]
    /\ shape \in ReplyShapes
    /\ prompt = NoPrompt
    /\ users_collection = Collection(<<>>)
    /\ AdminIdle

NextConv ==
    \/ \E u \in Users : EnglishCoach(u)
    \/ \E u \in Users, t \in Personas : RoleplayCoach(u, t)
    \/ \E u \in Users : Logout(u)

SpecConv == InitConv /\ [][NextConv]_vars

(***************************************************************************)
(* One user's contexts when a write to the conversations collection can    *)
(* fail (save_conversation's except branch, database.py 539-540) and a     *)
(* stored text can be deleted.                                             *)
(***************************************************************************)
CacheUser == "u1"
CachePersonas == {"teacher"}
CacheModes == {"conversation", "roleplay_teacher"}

MayTalkBriefly == TurnsOn(said, Keys) < MaxCacheTurns

\* update_one raised: save_conversation returns False with the collection
\* as it was, and update_user_context goes on to the cache (app.py 230-235)
TurnSaveFailed(user_id, mode, r) ==
    /\ conversation_contexts' = r.cache
    /\ said' = [said EXCEPT ![user_id][mode] = @ + 1]
    /\ prompt' = [user |-> user_id, mode |-> mode, context |-> r.prompt]
    /\ UNCHANGED <<doc, today, last, nops, shape, users_collection, avars, conversations>>

CoachTurn(user_id, mode, saved) ==
    LET r == coach(conversations, conversation_contexts, user_id, mode,
                   said[user_id][mode] + 1, shape)
    IN  /\ MayTalkBriefly
        /\ IF saved THEN Turn(user_id, mode, r) ELSE TurnSaveFailed(user_id, mode, r)

DeleteConversation(user_id, mode) ==
    /\ conversations' = delete_conversation(conversations, user_id, mode)
    /\ UNCHANGED <<doc, today, last, nops, conversation_contexts, said, shape, prompt,
                   users_collection, avars>>

InitCache ==
    /\ today = StartDay
    /\ doc = startup(create_user, StartDay)
    /\ last = Started
    /\ nops = 0
    /\ conversations = NoTexts
    /\ conversation_contexts = NoTexts
    /\ said = [u \in Users |-> [m \in ModeKeys |-> 0]]
    /\ shape \in {<<1>>, <<1, 1, 1>>}
    /\ prompt = NoPrompt
    /\ users_collection = Collection(<<>>)
    /\ AdminIdle

NextCache ==
    \/ \E m \in CacheModes : CoachTurn(CacheUser, m, TRUE)
    \/ \E m \in CacheModes : CoachTurn(CacheUser, m, FALSE)
    \/ \E m \in CacheModes : DeleteConversation(CacheUser, m)
    \/ Logout(CacheUser)

SpecCache == InitCache /\ [][NextCache]_vars

(***************************************************************************)
(* The practice routes with services that can fail.                        *)
(***************************************************************************)
TTSOutcomes == [1..4 -> ServiceOutcomes]

Process(user_id, roleplay, llm, tts) ==
    LET mode == IF roleplay # "" THEN context_key(roleplay) ELSE "conversation"
        r == process(conversations, conversation_contexts, doc, today, user_id,
                     roleplay, said[user_id][mode] + 1, shape, llm, tts)
    IN  /\ MayTalkBriefly
        /\ InBounds(r.doc)
        /\ conversations' = r.store
        /\ conversation_contexts' = r.cache
        /\ doc' = r.doc
        /\ said' = IF r.talked THEN [said EXCEPT ![user_id][mode] = @ + 1] ELSE said
        /\ prompt' = IF r.talked
                     THEN [user |-> user_id, mode |-> mode, context |-> r.prompt]
                     ELSE prompt
        /\ last' = [call |-> Op("process", <<roleplay, llm, tts>>, 0), ret |-> r.response]
        /\ UNCHANGED <<today, nops, shape, users_collection, avars>>

PracticeFrame ==
    UNCHANGED <<doc, today, nops, cvars, users_collection, avars>>

RepeatSentence(tts) ==
    /\ last' = [call |-> Op("repeat_sentence", tts, 0), ret |-> repeat_sentence(tts)]
    /\ PracticeFrame

SpellWord(llm, tts) ==
    /\ last' = [call |-> Op("spell_word", <<llm, tts>>, 0), ret |-> spell_word(llm, tts)]
    /\ PracticeFrame

NextPractice ==
    \/ \E roleplay \in {"", "teacher"}, llm \in ServiceOutcomes, tts \in ServiceOutcomes :
           Process(CacheUser, roleplay, llm, tts)
    \/ \E tts \in TTSOutcomes : RepeatSentence(tts)
    \/ \E llm \in ServiceOutcomes, tts \in TTSOutcomes : SpellWord(llm, tts)

SpecPractice == InitCache /\ [][NextPractice]_vars

(***************************************************************************)
(* The users collection: signup, stage completions and the leaderboard.    *)
(***************************************************************************)
Id4(a, b, c, d) == <<a, b, c, d>>

\* a stored user with lifetime XP total, of which weekly was earned this week
StoredUser(user_id, name, user_type, class, division, total, weekly) ==
    [_id |-> user_id, name |-> name, password |-> hash_password("old"),
     user_type |-> user_type, class |-> class, division |-> division,
     doc |-> migrate_user([create_user EXCEPT !.total_xp = total,
                                              !.total_stars = total,
                                              !.weekly_xp[0] = weekly])]

Anu   == StoredUser(Id4("1", "0", "0", "1"), "Anu", "student", <<"5">>, <<"A">>, 40, 20)
Binu  == StoredUser(Id4("1", "0", "0", "2"), "Binu", "student", <<"5", " ">>, <<"a">>, 25, 20)
Cini  == StoredUser(Id4("1", "0", "0", "3"), "Cini", "student", <<"5">>, <<"B">>, 30, 30)
Old   == StoredUser(Id4("1", "0", "0", "4"), "Old", "student", <<>>, <<>>, 10, 0)
Kiran == StoredUser(Id4("1", "0", "0", "5"), "Kiran", "student", <<"k", "g">>, <<" ", "b">>, 0, 0)
Miss  == StoredUser(Id4("9", "0", "0", "1"), "Miss", "teacher", <<"5">>, <<"A">>, 0, 0)

StartRosters ==
    {<<>>, <<Anu, Binu, Cini>>, <<Miss, Old, Anu, Kiran>>, <<Binu, Anu>>}

NewId == Id4("2", "0", "0", "1")

SignupRequest(user_id, password, name, class, division) ==
    [user_id |-> user_id, password |-> password, name |-> name,
     class |-> class, division |-> division]

SignupRequests ==
    {SignupRequest(i, "secret", "Dev", c, d) :
        i \in {NewId, Anu._id}, c \in {<<"5">>, <<"K", "G">>}, d \in {<<"a">>, <<" ", "B">>}}
    \cup {SignupRequest(i, "secret", "Dev", <<"5">>, <<"a">>) :
        i \in {<<"1", "2", "3">>, <<"1", "2", "a", "4">>,
               <<"1", "2", "3", "4", "5">>, <<>>}}
    \cup {SignupRequest(NewId, "", "Dev", <<"5">>, <<"a">>),
          SignupRequest(NewId, "secret", "", <<"5">>, <<"a">>),
          SignupRequest(Anu._id, "secret", "Dev", <<>>, <<"a">>),
          SignupRequest(NewId, "secret", "Dev", <<"5">>, <<>>)}

EarningIds == {Binu._id, Old._id, NewId}
UsersAwards == {10}
SelectedClasses == {<<"5">>, <<" ", "5">>, <<"K", "G">>, <<"6">>}
SelectedDivisions == {<<>>, <<" ">>, <<"a", " ">>, <<"B">>}

InitUsers ==
    /\ today = StartDay
    /\ doc = startup(create_user, StartDay)
    /\ last = Started
    /\ nops = 0
    /\ conversations = NoTexts
    /\ conversation_contexts = NoTexts
    /\ said = [u \in Users |-> [m \in ModeKeys |-> 0]]
    /\ shape = <<1>>
    /\ prompt = NoPrompt
    /\ \E roster \in StartRosters : users_collection = Collection(roster)
    /\ AdminIdle

UsersFrame == UNCHANGED <<doc, today, nops, cvars, avars>>

Signup(data) ==
    LET r == signup(users_collection, data)
    IN  /\ users_collection' = r.users
        /\ last' = [call |-> Op("signup", data, 0),
                    ret |-> [success |-> r.success, message |-> r.message]]
        /\ UsersFrame

StageCompleted(user_id, stars_earned, mode) ==
    LET r == save_progress_of(users_collection, user_id, today, stars_earned, mode)
    IN  /\ r.ret # <<>>
        /\ InBounds(get_user_by_id(r.users, user_id)[1].doc)
        /\ users_collection' = r.users
        /\ last' = [call |-> Op("save_user_progress", user_id, stars_earned),
                    ret |-> r.ret[1]]
        /\ UsersFrame

GetWeeklyLeaderboard(selected_class, selected_division) ==
    /\ last' = [call |-> Op("get_weekly_leaderboard",
                            [class |-> selected_class, division |-> selected_division], 0),
                ret |-> get_weekly_leaderboard(users_collection, today,
                                               selected_class, selected_division)]
    /\ UNCHANGED <<users_collection, avars>>
    /\ UsersFrame

NextUsers ==
    \/ \E data \in SignupRequests : Signup(data)
    \/ \E u \in EarningIds, a \in UsersAwards : StageCompleted(u, a, "spellbee")
    \/ \E c \in SelectedClasses, d \in SelectedDivisions : GetWeeklyLeaderboard(c, d)

SpecUsers == InitUsers /\ [][NextUsers]_vars


(***************************************************************************)
(* The operations with and without a connection to the database.           *)
(***************************************************************************)
\* a stored password from before passwords were hashed
LegacyBinu == [Binu EXCEPT !.password = [scheme |-> "plain", of |-> "old"]]

OutageIds == {LegacyBinu._id, NewId}
OutagePasswords == {"old", "wrong", ""}
OutageText == TurnLines(CacheUser, "conversation", 1, <<1>>)

InitOutage ==
    /\ today = StartDay
    /\ doc = startup(create_user, StartDay)
    /\ last = Started
    /\ nops = 0
    /\ conversations = NoTexts
    /\ conversation_contexts = NoTexts
    /\ said = [u \in Users |-> [m \in ModeKeys |-> 0]]
    /\ shape = <<1>>
    /\ prompt = NoPrompt
    /\ users_collection \in {None, Collection(<<LegacyBinu>>)}
    /\ AdminIdle

OutageFrame ==
    UNCHANGED <<doc, today, nops, conversation_contexts, said, shape, prompt, avars>>

UserStep(name, arg, r) ==
    /\ users_collection' = r.users
    /\ last' = [call |-> Op(name, arg, 0), ret |-> r.ret]
    /\ UNCHANGED conversations
    /\ OutageFrame

CheckBadgesOf(user_id) ==
    UserStep("check_and_award_badges", user_id,
             check_and_award_badges_of(users_collection, user_id))

ChallengesOf(user_id) ==
    UserStep("get_daily_challenges", user_id,
             get_daily_challenges_of(users_collection, user_id, today))

ChallengeProgressOf(user_id, challenge_type) ==
    UserStep("update_challenge_progress", user_id,
             update_challenge_progress_of(users_collection, user_id, today, challenge_type))

SaveProgressOf(user_id, stars_earned, mode) ==
    LET r == save_progress_of(users_collection, user_id, today, stars_earned, mode)
    IN  /\ r.ret # <<>> => InBounds(get_user_by_id(r.users, user_id)[1].doc)
        /\ UserStep("save_user_progress", user_id, r)

LoginOf(user_id, password) ==
    LET r == login_of(users_collection, today, user_id, password)
    IN  UserStep("login", <<user_id, password>>,
                 [users |-> r.users,
                  ret |-> [success |-> r.success, message |-> r.message]])

SaveConversationOf(user_id, mode) ==
    LET r == save_conversation_of(users_collection, conversations, user_id, mode,
                                  OutageText)
    IN  /\ conversations' = r.store
        /\ last' = [call |-> Op("save_conversation", mode, 0), ret |-> r.ret]
        /\ UNCHANGED <<users_collection, avars>>
        /\ OutageFrame

GetConversationOf(user_id, mode) ==
    /\ last' = [call |-> Op("get_conversation", mode, 0),
                ret |-> get_conversation_of(users_collection, conversations,
                                            user_id, mode)]
    /\ UNCHANGED <<users_collection, avars, conversations>>
    /\ OutageFrame

NextOutage ==
    \/ \E u \in OutageIds : CheckBadgesOf(u)
    \/ \E u \in OutageIds : ChallengesOf(u)
    \/ \E u \in OutageIds : ChallengeProgressOf(u, "mastery")
    \/ \E u \in OutageIds, a \in UsersAwards : SaveProgressOf(u, a, "spellbee")
    \/ \E u \in OutageIds \cup {<<>>}, pw \in OutagePasswords : LoginOf(u, pw)
    \/ \E m \in CacheModes : SaveConversationOf(CacheUser, m)
    \/ \E m \in CacheModes : GetConversationOf(CacheUser, m)
    \/ \E c \in {<<"5">>, <<"6">>} : GetWeeklyLeaderboard(c, <<>>)

SpecOutage == InitOutage /\ [][NextOutage]_vars

(***************************************************************************)
(* The XP / level formula on its own: each step calls one of the three     *)
(* functions on an input of the bounded range and keeps the returned       *)
(* value.                                                                  *)
(***************************************************************************)
LevelInputs == 0..(MaxLevel + 1)
XPInputs == 0..xp_threshold_for_level(MaxLevel + 1)

InitLevels ==
    /\ doc = create_user
    /\ today = StartDay
    /\ nops = 0
    /\ last = Started
    /\ ConvIdle

LevelsFrame == UNCHANGED <<doc, today, nops, cvars, users_collection, avars>>

XPThresholdForLevel(level) ==
    /\ last' = [call |-> Op("xp_threshold_for_level", level, 0),
                ret |-> xp_threshold_for_level(level)]
    /\ LevelsFrame

CalculateLevelFromXP(xp) ==
    /\ last' = [call |-> Op("calculate_level_from_xp", xp, 0),
                ret |-> calculate_level_from_xp(xp)]
    /\ LevelsFrame

GetXPForNextLevel(current_level) ==
    /\ last' = [call |-> Op("get_xp_for_next_level", current_level, 0),
                ret |-> get_xp_for_next_level(current_level)]
    /\ LevelsFrame

NextLevels ==
    \/ \E level \in LevelInputs : XPThresholdForLevel(level)
    \/ \E xp \in XPInputs : CalculateLevelFromXP(xp)
    \/ \E current_level \in LevelInputs : GetXPForNextLevel(current_level)

SpecLevels == InitLevels /\ [][NextLevels]_vars

(***************************************************************************)
(* Practice attempts of one student: each step is one request to           *)
(* /check_repeat or /check_spelling, with or without a logged-in session.  *)
(***************************************************************************)
Scores == {ratio(m, 40) : m \in {10, 11, 12, 15, 16, 18, 20}} \cup {ratio(0, 0)}
AccumulatedStars == {0, 4}
Difficulties == {"easy", "medium", "hard", "expert"}

Attempt(in_session, score, stage_complete, accumulated_stars, difficulty) ==
    [in_session |-> in_session, score |-> score, stage_complete |-> stage_complete,
     accumulated_stars |-> accumulated_stars, difficulty |-> difficulty]

\* requests inside a stage, requests completing one, and requests without a
\* session
Attempts ==
    {Attempt(TRUE, s, FALSE, 0, "easy") : s \in Scores}
    \cup {Attempt(TRUE, ratio(15, 40), TRUE, a, d) : a \in AccumulatedStars, d \in Difficulties}
    \cup {Attempt(TRUE, ratio(20, 40), TRUE, 4, "hard")}
    \cup {Attempt(FALSE, ratio(18, 40), c, 4, "hard") : c \in BOOLEAN}

InitAttempts ==
    /\ today = StartDay
    /\ doc \in {AlmostAllDone, NearLevel}
    /\ last = Started
    /\ nops = 0
    /\ ConvIdle

AttemptFrame ==
    /\ nops < MaxAttempts
    /\ nops' = nops + 1
    /\ UNCHANGED <<today, cvars, users_collection, avars>>

CheckRepeat(data) ==
    /\ AttemptFrame
    /\ LET r == check_repeat(doc, today, data.in_session, data.score, data.stage_complete,
                    data.accumulated_stars, data.difficulty)
       IN  /\ doc' = r.doc
           /\ last' = [call |-> Op("check_repeat", data, 0),
                       ret |-> r.response, passed |-> r.passed]

CheckSpelling(data) ==
    /\ AttemptFrame
    /\ LET r == check_spelling(doc, today, data.in_session, data.score, data.stage_complete,
                      data.accumulated_stars, data.difficulty)
       IN  /\ doc' = r.doc
           /\ last' = [call |-> Op("check_spelling", data, 0),
                       ret |-> r.response, passed |-> r.passed]

NextAttempts ==
    \/ \E data \in Attempts : CheckRepeat(data)
    \/ \E data \in Attempts : CheckSpelling(data)

SpecAttempts == InitAttempts /\ [][NextAttempts]_vars

(***************************************************************************)
(* The admin routes, called from a browser whose session was set by the    *)
(* student, teacher or admin login (app.py 1484, 1506, 2270-2272) or has   *)
(* no login.                                                               *)
(***************************************************************************)
Tara ==
    [_id |-> <<"T", "1">>, username |-> "tara", password |-> hash_password("old"),
     status |-> "pending", password_reset_requested |-> TRUE]

AdminId == <<"A", "1">>

Sessions ==
    {NoSession,
     [role |-> "student", user_id |-> Anu._id],
     [role |-> "teacher", user_id |-> Tara._id],
     [role |-> "admin", user_id |-> AdminId]}

TeacherIds == {Tara._id, <<>>}
StudentIds == {Anu._id, <<>>}
NewPasswords == {<<>>, <<"a", "b", "c">>, <<"a", "b", "c", "d">>,
                 <<"a", "b", "c", "d", "e", "f">>}

InitAdmin ==
    /\ doc = create_user
    /\ today = StartDay
    /\ nops = 0
    /\ last = Started
    /\ conversations = NoTexts
    /\ conversation_contexts = NoTexts
    /\ said = [u \in Users |-> [m \in ModeKeys |-> 0]]
    /\ shape = <<1>>
    /\ prompt = NoPrompt
    /\ users_collection = Collection(<<Anu, Miss>>)
    /\ teachers_collection = Collection(<<Tara>>)
    /\ session \in Sessions
    /\ requests = [t \in Threads |-> NoRequest]

AdminStep(name, arg, r) ==
    /\ users_collection' = r.users
    /\ teachers_collection' = r.teachers
    /\ last' = [call |-> Op(name, arg, 0), ret |-> r.response]
    /\ UNCHANGED <<doc, today, nops, cvars, session, requests>>

AdminMigrateUsers ==
    AdminStep("migrate-users", <<>>,
              admin_migrate_users(session, users_collection, teachers_collection))

ApiAdminStats ==
    AdminStep("stats", <<>>,
              api_admin_stats(session, users_collection, teachers_collection))

ApiAdminStudents ==
    AdminStep("students", <<>>,
              api_admin_students(session, users_collection, teachers_collection))

ApiAdminTeachers ==
    AdminStep("teachers", <<>>,
              api_admin_teachers(session, users_collection, teachers_collection))

ApiAdminPasswordResetRequests ==
    AdminStep("password-reset-requests", <<>>,
              api_admin_password_reset_requests(session, users_collection,
                                                teachers_collection))

ApiAdminApproveTeacher(teacher_id) ==
    AdminStep("approve-teacher", <<teacher_id>>,
              api_admin_approve_teacher(session, users_collection, teachers_collection,
                                        teacher_id))

ApiAdminRejectTeacher(teacher_id) ==
    AdminStep("reject-teacher", <<teacher_id>>,
              api_admin_reject_teacher(session, users_collection, teachers_collection,
                                       teacher_id))

ApiAdminDeleteTeacher(teacher_id) ==
    AdminStep("delete-teacher", <<teacher_id>>,
              api_admin_delete_teacher(session, users_collection, teachers_collection,
                                       teacher_id))

ApiAdminDeleteStudent(student_id) ==
    AdminStep("delete-student", <<student_id>>,
              api_admin_delete_student(session, users_collection, teachers_collection,
                                       student_id))

ApiAdminResetStudentPassword(student_id, new_password) ==
    AdminStep("reset-student-password", <<student_id, new_password>>,
              api_admin_reset_student_password(session, users_collection,
                                               teachers_collection, student_id,
                                               new_password))

ApiAdminResetTeacherPassword(teacher_id, new_password) ==
    AdminStep("reset-teacher-password", <<teacher_id, new_password>>,
              api_admin_reset_teacher_password_route(session, users_collection,
                                                     teachers_collection, teacher_id,
                                                     new_password))

NextAdmin ==
    \/ AdminMigrateUsers
    \/ ApiAdminStats
    \/ ApiAdminStudents
    \/ ApiAdminTeachers
    \/ ApiAdminPasswordResetRequests
    \/ \E teacher_id \in TeacherIds : ApiAdminApproveTeacher(teacher_id)
    \/ \E teacher_id \in TeacherIds : ApiAdminRejectTeacher(teacher_id)
    \/ \E teacher_id \in TeacherIds : ApiAdminDeleteTeacher(teacher_id)
    \/ \E student_id \in StudentIds : ApiAdminDeleteStudent(student_id)
    \/ \E student_id \in StudentIds, new_password \in NewPasswords :
           ApiAdminResetStudentPassword(student_id, new_password)
    \/ \E teacher_id \in TeacherIds, new_password \in NewPasswords :
           ApiAdminResetTeacherPassword(teacher_id, new_password)

SpecAdmin == InitAdmin /\ [][NextAdmin]_vars

(***************************************************************************)
(* Requests of one student handled by two threads at once: a thread starts *)
(* a stage completion or a challenge update, and the store accesses of the *)
(* two requests interleave.                                                *)
(***************************************************************************)
RaceAwards == {6}
RaceModes == {"repeat", "spellbee"}
RaceChallenges == {"mastery"}

InitRace ==
    /\ today = StartDay
    /\ doc \in {startup(create_user, StartDay), AlmostAllDone, FourSpelled}
    /\ last = Started
    /\ nops = 0
    /\ ConvIdle

RaceFrame == UNCHANGED <<today, cvars, users_collection, teachers_collection, session>>

Idle(t) == requests[t].rest = <<>>

CallSaveUserProgress(t, stars_earned, mode) ==
    /\ nops < MaxOps
    /\ Idle(t)
    /\ nops' = nops + 1
    /\ requests' = [requests EXCEPT ![t] =
                       [NoRequest EXCEPT !.rest = SaveProgram(mode, stars_earned),
                                         !.stars_earned = stars_earned,
                                         !.mode = mode]]
    /\ last' = [call |-> Op("save_user_progress", mode, stars_earned), ret |-> NoRet]
    /\ UNCHANGED doc
    /\ RaceFrame

CallUpdateChallengeProgress(t, challenge_type) ==
    /\ nops < MaxOps
    /\ Idle(t)
    /\ nops' = nops + 1
    /\ requests' = [requests EXCEPT ![t] =
                       [NoRequest EXCEPT !.rest = ChallengeProgram,
                                         !.challenge_type = challenge_type]]
    /\ last' = [call |-> Op("update_challenge_progress", challenge_type, 1),
                ret |-> NoRet]
    /\ UNCHANGED doc
    /\ RaceFrame

StoreAccess(t) ==
    /\ ~Idle(t)
    /\ LET r == Access(requests[t], doc, today)
       IN  /\ doc' = r.doc
           /\ requests' = [requests EXCEPT ![t] = Finished(r.req)]
    /\ last' = [call |-> Op(Head(requests[t].rest), "", t), ret |-> NoRet]
    /\ UNCHANGED nops
    /\ RaceFrame

NextRace ==
    \/ \E t \in Threads, s \in RaceAwards, m \in RaceModes : CallSaveUserProgress(t, s, m)
    \/ \E t \in Threads, c \in RaceChallenges : CallUpdateChallengeProgress(t, c)
    \/ \E t \in Threads : StoreAccess(t)

SpecRace == InitRace /\ [][NextRace]_vars

(***************************************************************************)
(* The challenge tracker within one week, for a student who starts the     *)
(* week without XP: total_xp is the sum of what update_challenge_progress  *)
(* has returned.                                                           *)
(***************************************************************************)
InitOneWeek ==
    /\ today = StartDay
    /\ doc = startup(create_user, StartDay)
    /\ last = Started
    /\ nops = 0
    /\ ConvIdle

NextOneWeek ==
    \/ \E t \in ChallengeTypes, i \in Increments :
           UpdateChallengeProgress(t, i) /\ Uncounted
    \/ GetDailyChallenges /\ Uncounted

SpecOneWeek == InitOneWeek /\ [][NextOneWeek]_vars

(***************************************************************************)
(* The first week after the one in which a student earned all their XP:    *)
(* stage completions, challenge updates, logins and restarts of the        *)
(* application (app.py 63-75) from its Monday on.                          *)
(***************************************************************************)
NewWeekAwards == {0, 6}

InitNewWeek ==
    /\ today = StartDay + 1
    /\ doc \in {create_user, NearLevel}
    /\ last = [call |-> Op("next_week", "", 0), ret |-> NoRet]
    /\ nops = 0
    /\ ConvIdle

NextNewWeek ==
    \/ Counted /\ (\E s \in NewWeekAwards, m \in ModeNames : SaveUserProgress(s, m))
    \/ Counted /\ (\E t \in ChallengeTypes, i \in Increments : UpdateChallengeProgress(t, i))
    \/ Counted /\ Login
    \/ Counted /\ Restart
    \/ Counted /\ NextDay

SpecNewWeek == InitNewWeek /\ [][NextNewWeek]_vars

(***************************************************************************)
(* Teacher accounts from signup to login: a teacher's browser signs up,    *)
(* logs in and out; the admin approves and rejects from a session of their *)
(* own.                                                                    *)
(***************************************************************************)
Secret == <<"s", "e", "c", "r", "e", "t">>
Guess == <<"g", "u", "e", "s", "s", "1">>
Meera == <<"m", "e", "e", "r", "a", "1">>
Oldham == <<"o", "l", "d", "h", "a", "m">>

\* an account stored before approval existed: no status, password in plain text
LegacyTeacher ==
    [_id |-> <<"T", "0">>, username |-> Oldham, password |-> [scheme |-> "plain", of |-> Secret],
     status |-> Unset, password_reset_requested |-> FALSE]

TeacherUsernames == {Meera, Oldham, <<"m", "e">>}
TeacherPasswords == {Secret, Guess}
TeacherSignups ==
    {[username |-> u, password |-> p, name |-> "Teacher"] :
        u \in TeacherUsernames, p \in {Secret, <<>>}}
StoredTeacherIds == {LegacyTeacher._id, <<"teacher_">> \o Meera}

AdminSession == [role |-> "admin", user_id |-> AdminId]

InitTeachers ==
    /\ doc = create_user
    /\ today = StartDay
    /\ nops = 0
    /\ last = Started
    /\ conversations = NoTexts
    /\ conversation_contexts = NoTexts
    /\ said = [u \in Users |-> [m \in ModeKeys |-> 0]]
    /\ shape = <<1>>
    /\ prompt = NoPrompt
    /\ users_collection = Collection(<<>>)
    /\ teachers_collection = Collection(<<LegacyTeacher>>)
    /\ session = NoSession
    /\ requests = [t \in Threads |-> NoRequest]

TeachersFrame == UNCHANGED <<doc, today, nops, cvars, users_collection, requests>>

TeacherSignup(data) ==
    LET r == teacher_signup(teachers_collection, data)
    IN  /\ teachers_collection' = r.teachers
        /\ last' = [call |-> Op("teacher_signup", <<data.username, data.password>>, 0),
                    ret |-> r.response]
        /\ UNCHANGED session
        /\ TeachersFrame

TeacherLogin(username, password) ==
    LET r == teacher_login(teachers_collection, session, username, password)
    IN  /\ teachers_collection' = r.teachers
        /\ session' = r.session
        /\ last' = [call |-> Op("teacher_login", <<username, password>>, 0),
                    ret |-> r.response]
        /\ TeachersFrame

\* /logout (app.py 1715-1731): session.clear(); a teacher has no conversation context
TeacherLogout ==
    /\ session' = NoSession
    /\ last' = [call |-> Op("logout", <<>>, 0), ret |-> Json(TRUE, "")]
    /\ UNCHANGED teachers_collection
    /\ TeachersFrame

AdminApproves(teacher_id) ==
    LET r == api_admin_approve_teacher(AdminSession, users_collection, teachers_collection,
                                       teacher_id)
    IN  /\ teachers_collection' = r.teachers
        /\ last' = [call |-> Op("approve-teacher", <<teacher_id>>, 0), ret |-> r.response]
        /\ UNCHANGED session
        /\ TeachersFrame

AdminRejects(teacher_id) ==
    LET r == api_admin_reject_teacher(AdminSession, users_collection, teachers_collection,
                                      teacher_id)
    IN  /\ teachers_collection' = r.teachers
        /\ last' = [call |-> Op("reject-teacher", <<teacher_id>>, 0), ret |-> r.response]
        /\ UNCHANGED session
        /\ TeachersFrame

NextTeachers ==
    \/ \E data \in TeacherSignups : TeacherSignup(data)
    \/ \E u \in TeacherUsernames, p \in TeacherPasswords : TeacherLogin(u, p)
    \/ TeacherLogout
    \/ \E t \in StoredTeacherIds : AdminApproves(t)
    \/ \E t \in StoredTeacherIds : AdminRejects(t)

SpecTeachers == InitTeachers /\ [][NextTeachers]_vars

(***************************************************************************)
(* Properties                                                              *)
(***************************************************************************)
Earned(d) == SeqToSet(d.ach.badges_earned)

\* C1: between operations the stored level is the level computed from the
\* stored total_xp.
LevelMatchesXP == doc.level = calculate_level_from_xp(doc.total_xp)

LevelUpSeen ==
    /\ last.call.op \in {"save_user_progress", "update_challenge_progress"}
    /\ doc.level >= 2
    /\ nops >= 1

\* C2: a call of update_challenge_progress whose slot is already completed,
\* or whose type names no slot, returns 0 and leaves total_xp and level as
\* they were.
SlotBlocked(challenge_type) ==
    LET key == type_map(challenge_type)
        challenges == get_daily_challenges(doc, today).challenges
    IN  key = 0 \/ challenges.slots[key].completed

BlockedCallEarnsNothing ==
    [][\A t \in ChallengeTypes, i \in Increments :
          (UpdateChallengeProgress(t, i) /\ SlotBlocked(t))
              => /\ last'.ret.xp = 0
                 /\ doc'.total_xp = doc.total_xp
                 /\ doc'.level = doc.level]_vars

\* C3: a badge id in badges_earned stays in badges_earned, across every
\* operation and across the steps of login.
BadgesIrrevocable ==
    [][/\ Earned(doc) \subseteq Earned(doc')
       /\ Earned(doc) \subseteq Earned(LoginChecked(doc, today))
       /\ Earned(LoginChecked(doc, today)) \subseteq Earned(login(doc, today))]_vars

BadgeKeptAcrossLogin ==
    /\ last.call.op = "login"
    /\ Earned(doc) # {}

\* C4: no operation lowers total_xp, stage completions with a negative award
\* aside.
NegativeAward(l) == l.call.op = "save_user_progress" /\ l.call.n < 0

TotalXPNeverDecreases ==
    [][NegativeAward(last') \/ doc'.total_xp >= doc.total_xp]_vars

XPGrew ==
    /\ doc.total_xp >= BaseGap
    /\ last.call.op \in {"save_user_progress", "update_challenge_progress"}
    /\ ~NegativeAward(last)

\* C5: a call that brings an uncompleted slot to its target marks it
\* completed, adds 1 to completed_today, returns the slot's reward of 5 plus
\* 10 exactly when all three slots are then completed, adds the returned
\* amount to total_xp and stores the level of the new total_xp.
AllSlotsCompleted(dc) == \A k \in 1..3 : dc.slots[k].completed

CompletingCallRewards ==
    [][\A t \in ChallengeTypes, i \in Increments :
          LET key == type_map(t)
              before == get_daily_challenges(doc, today).challenges
              after == doc'.dc
          IN  (/\ UpdateChallengeProgress(t, i)
               /\ key # 0
               /\ ~before.slots[key].completed
               /\ before.slots[key].current + i >= before.slots[key].target)
              => /\ after.slots[key].completed
                 /\ after.slots[key].current = after.slots[key].target
                 /\ after.completed_today = before.completed_today + 1
                 /\ last'.ret.xp = ChallengeXP
                                   + (IF AllSlotsCompleted(after) THEN AllDoneBonus ELSE 0)
                 /\ doc'.total_xp = doc.total_xp + last'.ret.xp
                 /\ doc'.level = calculate_level_from_xp(doc'.total_xp)]_vars

ThirdSlotCompleted ==
    /\ last.call.op = "update_challenge_progress"
    /\ last.ret.xp = ChallengeXP + AllDoneBonus
    /\ AllSlotsCompleted(doc.dc)

\* C6: get_daily_challenges on a stored set of another week stores a set with
\* streak = prior streak + 1 if all three stored challenges were completed
\* and 0 otherwise (0 with no stored set), every challenge back at
\* current 0 and not completed, completed_today 0.
RolloverResets ==
    [][(GetDailyChallenges /\ doc.dc.week # get_week_key(today))
          => /\ doc'.dc.week = get_week_key(today)
             /\ doc'.dc.streak = IF doc.dc.week # NoWeek /\ AllSlotsCompleted(doc.dc)
                                 THEN doc.dc.streak + 1 ELSE 0
             /\ \A k \in 1..3 : /\ doc'.dc.slots[k].current = 0
                                /\ ~doc'.dc.slots[k].completed
             /\ doc'.dc.completed_today = 0]_vars

RolledOverWithStreak ==
    /\ last.call.op = "get_daily_challenges"
    /\ last.call.n = 1
    /\ doc.dc.week = 1
    /\ doc.dc.streak = 1

\* C7: a second check_and_award_badges right after a first returns an empty
\* list and leaves badges_earned as it was, and no id is ever listed twice.
NoDuplicates(seq) == \A i, j \in 1..Len(seq) : i # j => seq[i] # seq[j]

BadgeCheckIdempotent ==
    [][/\ (CheckAndAwardBadges /\ last.call.op = "check_and_award_badges")
            => /\ last'.ret.new = <<>>
               /\ doc'.ach.badges_earned = doc.ach.badges_earned
       /\ NoDuplicates(doc'.ach.badges_earned)]_vars

SecondCheckAfterAward ==
    /\ last.call.op = "check_and_award_badges"
    /\ last.call.n = 2
    /\ Len(doc.ach.badges_earned) >= 2

\* C8: check_and_award_badges returns exactly the catalog badges not yet
\* earned whose comparison value (level, total_xp or the named counter) is
\* at least req, and adds exactly those to badges_earned.
ComparisonValue(d, badge) ==
    IF badge.type = "level" THEN d.level
    ELSE IF badge.type = "total_xp" THEN d.total_xp
    ELSE IF d.ach.kind = "dict" THEN d.ach.counts[badge.type] ELSE 0

Deserved(d) ==
    {ALL_BADGES[k].id : k \in {n \in 1..Len(ALL_BADGES) :
        /\ ALL_BADGES[n].id \notin Earned(d)
        /\ ComparisonValue(d, ALL_BADGES[n]) >= ALL_BADGES[n].req}}

CheckAwardsExactlyDeserved ==
    [][CheckAndAwardBadges
          => /\ SeqToSet(last'.ret.new) = Deserved(doc)
             /\ Earned(doc') = Earned(doc) \cup Deserved(doc)
             /\ Len(doc'.ach.badges_earned)
                    = Len(doc.ach.badges_earned) + Cardinality(Deserved(doc))]_vars

CheckAwardedSeveral ==
    /\ last.call.op = "check_and_award_badges"
    /\ Len(last.ret.new) >= 2
    /\ "conv_5" \in SeqToSet(last.ret.new)

\* C9 as stated: the stored text of mode conversation never has more than
\* 100 lines and that of a roleplay mode never more than 50, and a turn that
\* takes previous text and turn past the limit stores exactly their last 100
\* (50) lines.
TextLines(text) == IF text = EmptyText THEN <<>> ELSE text

LastLines(lines, n) == [i \in 1..n |-> lines[Len(lines) - n + i]]

TurnTaken(u, m) == said'[u][m] = said[u][m] + 1

Appended(u, m) == conversations[u][m] \o TurnLines(u, m, said'[u][m], shape)

WrittenLines(text) == IF text = EmptyText THEN <<>> ELSE strip(text)

TurnFrame(u, m) ==
    /\ \A v \in Users, k \in ModeKeys :
          <<v, k>> # <<u, m>>
              => /\ conversations'[v][k] = conversations[v][k]
                 /\ conversation_contexts'[v][k] = conversation_contexts[v][k]
    /\ conversations'[u][m] # conversations[u][m]
    /\ prompt'.context \in {conversations[u][m], conversation_contexts[u][m]}
    /\ \A i \in 1..Len(prompt'.context) :
          \/ IsBlank(prompt'.context[i])
          \/ prompt'.context[i].user = u /\ prompt'.context[i].mode = m

TurnChangesOnlyItsTranscript ==
    [][\A u \in Users :
          /\ EnglishCoach(u) => TurnFrame(u, "conversation")
          /\ \A t \in Personas : RoleplayCoach(u, t) => TurnFrame(u, "roleplay_" \o t)]_vars

TurnBesideOtherTranscripts ==
    /\ prompt.user = "u1"
    /\ prompt.mode = "roleplay_teacher"
    /\ prompt.context # EmptyText
    /\ \/ conversations["u1"]["conversation"] # EmptyText
       \/ conversations["u1"]["roleplay_friend"] # EmptyText
       \/ conversations["u2"]["roleplay_teacher"] # EmptyText


(***************************************************************************)
(* The weekly leaderboard.                                                 *)
(***************************************************************************)
BoardAsked == last.call.op = "get_weekly_leaderboard"

StoredWith(user_id) ==
    CHOOSE s \in SeqToSet(users_collection.docs) : s._id = user_id

\* C11: a leaderboard lists its entries by descending (weekly_xp, total xp),
\* each entry's weekly_xp is the stored weekly_xp of the current week (0 when
\* absent), and the ranks are 1..n in list order.
LeaderboardOrdered ==
    BoardAsked =>
        LET lb == last.ret
        IN  /\ \A i \in 1..Len(lb) :
                 /\ lb[i].rank = i
                 /\ lb[i].weekly_xp =
                        StoredWith(lb[i].user_id).doc.weekly_xp[get_week_key(today)]
            /\ \A i \in 1..(Len(lb) - 1) :
                 \/ lb[i].weekly_xp > lb[i + 1].weekly_xp
                 \/ /\ lb[i].weekly_xp = lb[i + 1].weekly_xp
                    /\ lb[i].xp >= lb[i + 1].xp

\* three entries, a tie on weekly_xp broken by the total, and an order that
\* is not the stored one
LeaderboardTieBroken ==
    /\ BoardAsked
    /\ Len(last.ret) >= 3
    /\ \E i \in 1..(Len(last.ret) - 1) :
          /\ last.ret[i].weekly_xp = last.ret[i + 1].weekly_xp
          /\ last.ret[i].xp > last.ret[i + 1].xp
    /\ \E i \in 1..(Len(last.ret) - 1) :
          IndexOf(users_collection.docs, last.ret[i].user_id)
              > IndexOf(users_collection.docs, last.ret[i + 1].user_id)

\* two strings that differ at most in the case of their letters
CasePairs == {<<"a", "A">>, <<"b", "B">>, <<"k", "K">>, <<"g", "G">>}

SameLetter(c, d) == c = d \/ <<c, d>> \in CasePairs \/ <<d, c>> \in CasePairs

EqualIgnoringCase(a, b) ==
    Len(a) = Len(b) /\ \A i \in 1..Len(a) : SameLetter(a[i], b[i])

\* t is s without the whitespace around it
IsBare(t) == t = <<>> \/ (t[1] # " " /\ t[Len(t)] # " ")

Bare(s) ==
    IF \A k \in 1..Len(s) : s[k] = " " THEN <<>>
    ELSE CHOOSE t \in {SubSeq(s, i, j) : i \in 1..Len(s), j \in 1..Len(s)} :
           /\ t # <<>>
           /\ IsBare(t)
           /\ \E i \in 1..(Len(s) - Len(t) + 1) :
                 /\ t = SubSeq(s, i, i + Len(t) - 1)
                 /\ \A k \in (1..Len(s)) \ (i..(i + Len(t) - 1)) : s[k] = " "

Listed == {last.ret[i].user_id : i \in 1..Len(last.ret)}

ListedOnce ==
    \A i, j \in 1..Len(last.ret) :
        last.ret[i].user_id = last.ret[j].user_id => i = j

\* the statement as given: case is all that the comparison ignores
SelectedIgnoringCase(s, q) ==
    /\ s.user_type # "teacher"
    /\ EqualIgnoringCase(s.class, q.class)
    /\ q.division # <<>> => EqualIgnoringCase(s.division, q.division)

LeaderboardSelectsByCase ==
    BoardAsked =>
        /\ ListedOnce
        /\ Listed = {s._id : s \in {s \in SeqToSet(users_collection.docs) :
                                        SelectedIgnoringCase(s, last.call.arg)}}

\* what the filter loop compares: the values without surrounding whitespace
SelectedBare(s, q) ==
    /\ s.user_type # "teacher"
    /\ EqualIgnoringCase(Bare(s.class), Bare(q.class))
    /\ Bare(q.division) # <<>> => EqualIgnoringCase(Bare(s.division), Bare(q.division))

\* C12: a leaderboard has exactly one entry for each stored record that is
\* not teacher-typed, whose class equals the selected class ignoring case and
\* surrounding whitespace, and whose division equals the filter in the same
\* way when the filter is not blank; no other record appears.
LeaderboardSelection ==
    BoardAsked =>
        /\ ListedOnce
        /\ Listed = {s._id : s \in {s \in SeqToSet(users_collection.docs) :
                                        SelectedBare(s, last.call.arg)}}

\* a record is listed whose class and division differ from the selection by
\* case and by whitespace, beside a teacher's and another division's record
LeaderboardFiltered ==
    /\ BoardAsked
    /\ last.call.arg.division # <<>>
    /\ \E s \in SeqToSet(users_collection.docs) :
          /\ s._id \in Listed
          /\ s.class # last.call.arg.class
          /\ ~EqualIgnoringCase(s.division, last.call.arg.division)
    /\ \E s \in SeqToSet(users_collection.docs) :
          /\ s.user_type = "teacher"
          /\ EqualIgnoringCase(Bare(s.class), Bare(last.call.arg.class))
    /\ \E s \in SeqToSet(users_collection.docs) :
          /\ s._id \notin Listed
          /\ s.user_type # "teacher"
          /\ EqualIgnoringCase(Bare(s.class), Bare(last.call.arg.class))

(***************************************************************************)
(* Stage completions.                                                      *)
(***************************************************************************)
StageSaved(l, m) == l.call.op = "save_user_progress" /\ l.call.arg = m

NewUser(d) ==
    /\ d.total_xp = 0 /\ d.level = 1
    /\ \A m \in ModeNames : d.mode_stats[m] = [stars |-> 0, sessions |-> 0]

\* C13: a stage completion with award s >= 0 adds s to total_stars, to
\* mode_stats[mode].stars and to weekly_xp of the current week, 1 to
\* mode_stats[mode].sessions, and to total_xp s plus what the dispatched
\* challenge update returned; a new user's 6 in repeat mode gives total_xp 6,
\* level 1 and mode_stats.repeat = {stars 6, sessions 1}.
StageAccounting ==
    [][\A m \in ModeNames :
          (StageSaved(last', m) /\ last'.call.n >= 0) =>
              LET s == last'.call.n
                  week == get_week_key(today)
              IN  /\ doc'.total_stars = doc.total_stars + s
                  /\ doc'.mode_stats[m].stars = doc.mode_stats[m].stars + s
                  /\ doc'.mode_stats[m].sessions = doc.mode_stats[m].sessions + 1
                  /\ doc'.weekly_xp[week] = doc.weekly_xp[week] + s
                  /\ doc'.total_xp = doc.total_xp + s + last'.ret.xp
                  /\ (NewUser(doc) /\ s = 6 /\ m = "repeat") =>
                        /\ doc'.total_xp = 6
                        /\ doc'.level = 1
                        /\ doc'.mode_stats["repeat"] = [stars |-> 6, sessions |-> 1]]_vars

\* a stage completion whose challenge update paid its reward
StageWithChallengeReward ==
    /\ StageSaved(last, "conversation")
    /\ last.call.n > 0
    /\ last.ret.xp = ChallengeXP
    /\ doc.total_xp > last.call.n + last.ret.xp
    /\ doc.mode_stats["conversation"].sessions = 1

\* the slots a challenge update starts from: the stored ones, or fresh ones
\* when the stored week is not the current one
SlotsAtCall == IF doc.dc.week = get_week_key(today) THEN doc.dc.slots ELSE NewSlots

Advanced(slot) ==
    IF slot.completed THEN slot.current ELSE Min(slot.current + 1, slot.target)

\* the dispatch table of the statement: mode -> counter, challenge slot
ModeCounter(m, s) ==
    CASE m = "repeat" -> "repeat_count"
      [] m = "spellbee" /\ s > 0 -> "spelling_count"
      [] m = "conversation" -> "conversation_count"
      [] m = "roleplay" -> "roleplay_count"
      [] OTHER -> "none"

ModeSlot(m) ==
    CASE m = "repeat" -> 2
      [] m \in {"conversation", "roleplay"} -> 1
      [] OTHER -> 0

\* C14: a stage completion in repeat mode increments repeat_count and advances
\* the learning challenge; in spellbee mode it increments spelling_count only
\* for an award > 0 and advances no challenge; in conversation and roleplay
\* mode it increments that mode's counter and advances the practice
\* challenge; in any other mode it changes no counter and no challenge.
StageDispatch ==
    [][\A m \in ModeNames :
          StageSaved(last', m) =>
              /\ \A c \in CounterNames :
                    doc'.ach.counts[c] = doc.ach.counts[c]
                        + (IF c = ModeCounter(m, last'.call.n) THEN 1 ELSE 0)
              /\ IF ModeSlot(m) = 0
                 THEN doc'.dc = doc.dc
                 ELSE \A k \in 1..3 :
                        doc'.dc.slots[k].current =
                            IF k = ModeSlot(m) THEN Advanced(SlotsAtCall[k])
                            ELSE SlotsAtCall[k].current]_vars

\* a roleplay stage has advanced the practice challenge and its counter only
RoleplayStageDispatched ==
    /\ StageSaved(last, "roleplay")
    /\ doc.dc.slots[1].current > 0
    /\ doc.dc.slots[2].current = 0
    /\ doc.ach.counts["roleplay_count"] > 0
    /\ doc.ach.counts["conversation_count"] = 0

(***************************************************************************)
(* The login streak.                                                       *)
(***************************************************************************)
\* C15: update_login_streak changes nothing when last_login is today;
\* otherwise the streak becomes the previous streak + 1 if last_login is
\* yesterday and 1 in every other case, last_login becomes today, and
\* max_login_streak the larger of its old value and the new streak.  (Seen
\* through login, for a document that has achievements: login replaces the
\* achievements of a document that had none.)
LoginStreakRule ==
    [][(last'.call.op = "login" /\ doc.ach.kind = "dict") =>
          LET old == doc.ach
              new == doc'.ach
              streak == IF old.last_login = today - 1
                        THEN old.daily_login_streak + 1 ELSE 1
          IN  IF old.last_login = today
              THEN /\ new.daily_login_streak = old.daily_login_streak
                   /\ new.max_login_streak = old.max_login_streak
                   /\ new.last_login = old.last_login
              ELSE /\ new.daily_login_streak = streak
                   /\ new.last_login = today
                   /\ new.max_login_streak =
                          IF old.max_login_streak >= streak
                          THEN old.max_login_streak ELSE streak]_vars

\* a login on the day after the last one has extended the streak
StreakExtended ==
    /\ last.call.op = "login"
    /\ doc.ach.last_login = today
    /\ doc.ach.daily_login_streak = 2
    /\ doc.ach.max_login_streak = 2

(***************************************************************************)
(* Weekly XP.                                                              *)
(***************************************************************************)
\* C16: weekly_xp of the current week is the XP earned in it: every step
\* that raises total_xp, by a stage completion or by a challenge reward or
\* bonus, raises weekly_xp of the current week by the same amount.
WeeklyXPFollowsTotal ==
    [][doc'.total_xp > doc.total_xp =>
          doc'.weekly_xp[get_week_key(today)] - doc.weekly_xp[get_week_key(today)]
              = doc'.total_xp - doc.total_xp]_vars

(***************************************************************************)
(* The context cache.                                                      *)
(***************************************************************************)
\* C17: the context a turn reads is the persisted transcript of its user and
\* mode, the empty text if none is persisted, and never a differing value of
\* the in-memory conversation_contexts.
ContextReadIsPersisted ==
    [][\A u \in Users, m \in ModeKeys :
          said'[u][m] # said[u][m] => prompt'.context = conversations[u][m]]_vars

(***************************************************************************)
(* Failing services.                                                       *)
(***************************************************************************)
PracticeRoutes == {"process", "repeat_sentence", "spell_word"}

\* C18: a practice route whose dialogue generator or speech synthesizer
\* failed answers normally, with fallback content or null audio, and never
\* with an error.
PracticeRoutesAnswer ==
    last.call.op \in PracticeRoutes => last.ret.status = 200

\* C19: without a connection to the database every operation returns its
\* default (check_and_award_badges [], get_daily_challenges None,
\* update_challenge_progress 0, get_weekly_leaderboard [], get_conversation
\* '', save_conversation False, save_user_progress None), a student login
\* fails, and nothing is stored.
DefaultReturn(op) ==
    CASE op = "check_and_award_badges" -> last.ret = <<>>
      [] op = "get_daily_challenges" -> last.ret = <<>>
      [] op = "update_challenge_progress" -> last.ret = 0
      [] op = "get_weekly_leaderboard" -> last.ret = <<>>
      [] op = "get_conversation" -> last.ret = EmptyText
      [] op = "save_conversation" -> last.ret = FALSE
      [] op = "save_user_progress" -> last.ret = <<>>
      [] op = "login" -> last.ret.success = FALSE
      [] OTHER -> op = "startup"

DefaultsWithoutStore ==
    users_collection = None =>
        /\ DefaultReturn(last.call.op)
        /\ conversations = NoTexts

\* a login with a user id and a password has failed for want of the store
LoginFailedWithoutStore ==
    /\ users_collection = None
    /\ last.call.op = "login"
    /\ last.call.arg = <<LegacyBinu._id, "old">>
    /\ last.ret.success = FALSE

(***************************************************************************)
(* Signup.                                                                 *)
(***************************************************************************)
NotFourDigits(user_id) ==
    Len(user_id) # 4 \/ \E i \in 1..Len(user_id) : user_id[i] \notin Digits

IdTaken(user_id) == \E s \in SeqToSet(users_collection.docs) : s._id = user_id

FieldMissing(data) ==
    \/ data.user_id = <<>> \/ data.password = "" \/ data.name = ""
    \/ data.class = <<>> \/ data.division = <<>>

\* C20: a student signup whose user id is not exactly 4 digits, whose id is
\* already stored, or that lacks a required field is rejected with a reason
\* and leaves the users collection as it was, the stored user's password,
\* total_xp, level and achievements included.
SignupRejected ==
    [][(/\ last'.call.op = "signup"
        /\ \/ NotFourDigits(last'.call.arg.user_id)
           \/ IdTaken(last'.call.arg.user_id)
           \/ FieldMissing(last'.call.arg))
          => /\ last'.ret.success = FALSE
             /\ last'.ret.message # ""
             /\ users_collection' = users_collection]_vars

\* a signup with the id of a stored student who has XP and badges was rejected
DuplicateSignupRejected ==
    /\ last.call.op = "signup"
    /\ ~FieldMissing(last.call.arg)
    /\ last.ret.success = FALSE
    /\ \E s \in SeqToSet(users_collection.docs) :
          /\ s._id = last.call.arg.user_id
          /\ s.doc.total_xp > 0
          /\ s.doc.ach.badges_earned # <<>>
          /\ s.password = hash_password("old")

(***************************************************************************)
(* The level formula.                                                      *)
(***************************************************************************)
LevelAsked == last.call.op = "calculate_level_from_xp"

\* C21: the level computed from the threshold of a level >= 1 is that level,
\* and the level computed from one XP below the threshold of a level > 1 is
\* the level before it.
ThresholdRoundTrip ==
    LevelAsked =>
        \A level \in 1..(MaxLevel + 1) :
            /\ last.call.arg = xp_threshold_for_level(level) => last.ret = level
            /\ (level > 1 /\ last.call.arg = xp_threshold_for_level(level) - 1)
                  => last.ret = level - 1

\* the level was computed from one XP below the threshold of level MaxLevel
LevelBelowThreshold ==
    /\ LevelAsked
    /\ last.call.arg = xp_threshold_for_level(MaxLevel) - 1
    /\ last.ret = MaxLevel - 1

\* C22: calculate_level_from_xp returns a level >= 1 for every non-negative
\* xp, and of two calls the one with the larger xp never returns the smaller
\* level.
LevelMonotone ==
    [][(LevelAsked' /\ last'.call.arg >= 0)
          => /\ last'.ret \in Nat /\ last'.ret >= 1
             /\ (LevelAsked /\ last.call.arg <= last'.call.arg)
                   => last.ret <= last'.ret]_vars

\* a level above 1 was computed from an XP above the threshold of that level
LevelRose ==
    /\ LevelAsked
    /\ last.ret > 1
    /\ last.call.arg > xp_threshold_for_level(last.ret)

RECURSIVE Doubled(_, _)
Doubled(base, times) == IF times <= 0 THEN base ELSE 2 * Doubled(base, times - 1)

ConcreteThresholds == <<0, 25, 75, 175, 375>>

\* C23: the thresholds of levels 1..5 are 0, 25, 75, 175, 375, and the gap
\* from a level >= 1 to the next is 25 doubled level - 1 times.
ThresholdsDouble ==
    /\ (last.call.op = "xp_threshold_for_level"
        /\ last.call.arg \in 1..Len(ConcreteThresholds))
          => last.ret = ConcreteThresholds[last.call.arg]
    /\ (last.call.op = "get_xp_for_next_level" /\ last.call.arg >= 1)
          => /\ last.ret = Doubled(BaseGap, last.call.arg - 1)
             /\ last.ret = xp_threshold_for_level(last.call.arg + 1)
                             - xp_threshold_for_level(last.call.arg)

\* the gap from level 4 to level 5 was asked
GapOfLevelFour ==
    /\ last.call.op = "get_xp_for_next_level"
    /\ last.call.arg = 4
    /\ last.ret = 200

(***************************************************************************)
(* Practice attempts.                                                      *)
(***************************************************************************)
RepeatChecked(l) == l.call.op = "check_repeat"

\* the score as a percentage is at least p
PercentAtLeast(score, p) == (100 * score.num) >= p * score.den

StarsOfPercent(score) ==
    CASE PercentAtLeast(score, 90) -> 3
      [] ~PercentAtLeast(score, 90) /\ PercentAtLeast(score, 75) -> 2
      [] ~PercentAtLeast(score, 75) /\ PercentAtLeast(score, 60) -> 1
      [] OTHER -> 0

\* C24: the stars of a repeat attempt depend on the similarity ratio alone: 3
\* from 90 percent, 2 from 75, 1 from 60, 0 below; they lie in 0..3 and an
\* attempt with a ratio not below that of the attempt before it has not fewer
\* stars.
RepeatStarsByRatio ==
    [][RepeatChecked(last')
          => /\ last'.ret.stars = StarsOfPercent(last'.call.arg.score)
             /\ last'.ret.stars \in 0..3
             /\ (RepeatChecked(last)
                 /\ last.call.arg.score.num * last'.call.arg.score.den
                       <= last'.call.arg.score.num * last.call.arg.score.den)
                   => last.ret.stars <= last'.ret.stars]_vars

\* a repeat attempt at exactly 90 percent got 3 stars, outside a session,
\* with the stage not complete
RepeatAtNinety ==
    /\ RepeatChecked(last)
    /\ last.call.arg.score = ratio(18, 40)
    /\ ~last.call.arg.in_session
    /\ last.ret.stars = 3

AttemptChecked(l) == l.call.op \in {"check_repeat", "check_spelling"}

DifficultyFactor(difficulty) ==
    IF difficulty = "medium" THEN 2 ELSE IF difficulty = "hard" THEN 3 ELSE 1

\* C25: a student's attempt that completes a stage, in repeat or spelling
\* mode, passes (accumulated_stars + stars of the attempt) * m to
\* save_user_progress and reports it as xp_awarded, m being 1 for easy, 2 for
\* medium, 3 for hard and 1 for any other difficulty; an attempt that does
\* not complete the stage leaves total_stars, mode_stats and weekly_xp as they
\* were and reports xp_awarded 0.
StageXPMultiplied ==
    [][AttemptChecked(last')
          => LET data == last'.call.arg
                 xp == (data.accumulated_stars + last'.ret.stars)
                          * DifficultyFactor(data.difficulty)
             IN  /\ (data.stage_complete /\ data.in_session)
                       => /\ last'.passed = <<xp>>
                          /\ last'.ret.xp_awarded = xp
                          /\ doc'.total_stars = doc.total_stars + xp
                 /\ ~data.stage_complete
                       => /\ last'.passed = <<>>
                          /\ last'.ret.xp_awarded = 0
                          /\ doc'.total_stars = doc.total_stars
                          /\ doc'.mode_stats = doc.mode_stats
                          /\ doc'.weekly_xp = doc.weekly_xp]_vars

\* a repeat stage was completed at medium difficulty with 4 accumulated stars
\* and 2 stars of the last attempt: 12 XP
MediumStageCompleted ==
    /\ last.call.op = "check_repeat"
    /\ last.call.arg.stage_complete /\ last.call.arg.in_session
    /\ last.call.arg.difficulty = "medium"
    /\ last.call.arg.accumulated_stars = 4
    /\ last.ret.stars = 2
    /\ last.ret.xp_awarded = 12
    /\ last.passed = <<12>>

(***************************************************************************)
(* Admin operations.                                                       *)
(***************************************************************************)
AdminOperations ==
    {"stats", "students", "teachers", "approve-teacher", "reject-teacher",
     "delete-teacher", "delete-student", "reset-student-password",
     "reset-teacher-password", "password-reset-requests", "migrate-users"}

\* C26: an operation under /api/admin/ is carried out only for a session
\* whose role is admin, and with any other role, or without a session, it
\* leaves the users and the teachers collection as they were.
AdminOperationsForAdminOnly ==
    [][(last'.call.op \in AdminOperations /\ session.role # "admin")
          => /\ ~last'.ret.success
             /\ users_collection' = users_collection
             /\ teachers_collection' = teachers_collection]_vars

(***************************************************************************)
(* Interleaved requests.                                                   *)
(***************************************************************************)
\* C27: while the store accesses of two requests that award XP to one
\* student interleave, no access lowers the stored total_xp.
TotalXPNeverDecreasesInterleaved ==
    [][doc'.total_xp >= doc.total_xp]_vars

(***************************************************************************)
(* Challenge rewards of one week.                                          *)
(***************************************************************************)
\* C28: the XP that the update_challenge_progress calls of one week return
\* to one student, and add to total_xp, is at most 25 in sum: three rewards
\* of 5 and one bonus of 10.
WeeklyChallengeXPBounded ==
    doc.total_xp <= AllDoneCount * ChallengeXP + AllDoneBonus

(***************************************************************************)
(* Shape of the stored challenge set.                                      *)
(***************************************************************************)
ChallengeCalled == last.call.op \in {"get_daily_challenges", "update_challenge_progress"}

SlotTypes == <<"practice", "learning", "mastery">>
SlotTargets == <<5, 10, 3>>

CompletedSlots(dc) == {k \in 1..Len(dc.slots) : dc.slots[k].completed}

\* C29: after a get_daily_challenges or update_challenge_progress call the
\* stored challenge set has the three slots practice, learning, mastery with
\* targets 5, 10, 3 and reward 5; each slot has 0 <= current <= target and is
\* completed exactly when current = target; completed_today is the number of
\* completed slots.
ChallengeSetWellFormed ==
    ChallengeCalled =>
        /\ Len(doc.dc.slots) = 3
        /\ \A k \in 1..3 :
              /\ doc.dc.slots[k].type = SlotTypes[k]
              /\ doc.dc.slots[k].target = SlotTargets[k]
              /\ doc.dc.slots[k].xp = 5
              /\ doc.dc.slots[k].current >= 0
              /\ doc.dc.slots[k].current <= doc.dc.slots[k].target
              /\ doc.dc.slots[k].completed
                    <=> doc.dc.slots[k].current = doc.dc.slots[k].target
        /\ doc.dc.completed_today = Cardinality(CompletedSlots(doc.dc))
        /\ doc.dc.completed_today \in 0..3

\* an increment of 5 has completed the mastery slot, whose target is 3
MasteryOvershot ==
    /\ last.call = Op("update_challenge_progress", "mastery", 5)
    /\ doc.dc.slots[3].completed
    /\ doc.dc.slots[3].current = 3
    /\ doc.dc.completed_today >= 1

(***************************************************************************)
(* What save_user_progress reports.                                        *)
(***************************************************************************)
\* C30: a save_user_progress call on an existing user returns as new_level
\* the level stored when the call finishes and as old_level the level stored
\* before it, and leveled_up exactly when the first is greater than the
\* second.
ReportedLevelsAreStored ==
    [][last'.call.op = "save_user_progress"
          => /\ last'.ret.new_level = doc'.level
             /\ last'.ret.old_level = doc.level
             /\ last'.ret.leveled_up <=> (doc'.level > doc.level)]_vars

(***************************************************************************)
(* Badges against the values they are awarded for.                         *)
(***************************************************************************)
TrackedOperations ==
    {"login", "save_user_progress", "increment_activity", "update_challenge_progress"}

EveryDeservedBadgeEarned(d) ==
    \A k \in 1..Len(ALL_BADGES) :
        ComparisonValue(d, ALL_BADGES[k]) >= ALL_BADGES[k].req
            => ALL_BADGES[k].id \in Earned(d)

EveryEarnedBadgeDeserved(d) ==
    \A k \in 1..Len(ALL_BADGES) :
        ALL_BADGES[k].id \in Earned(d)
            => ComparisonValue(d, ALL_BADGES[k]) >= ALL_BADGES[k].req

BothFinished == \A t \in Threads : Idle(t)

\* C32: when the badge evaluations of two requests of one student interleave
\* between their read of the document and their write of badges_earned,
\* every badge either evaluation has awarded is in badges_earned once both
\* requests have finished.
AwardedBadgesKeptInterleaved ==
    BothFinished
        => \A t \in Threads : SeqToSet(requests[t].awarded) \subseteq Earned(doc)

(***************************************************************************)
(* weekly_xp against the XP of its week.                                   *)
(***************************************************************************)
\* what the student had when the current week began: the XP of the week
\* before, in which they earned all of it
EarnedBeforeThisWeek(d) == d.weekly_xp[get_week_key(today) - 1]

\* C33: weekly_xp of the current week never exceeds the growth of total_xp
\* during the week, so that a student who has earned nothing this week has
\* weekly XP 0, restarts of the application included.
WeeklyXPCountsOnlyItsWeek ==
    doc.weekly_xp[get_week_key(today)] <= doc.total_xp - EarnedBeforeThisWeek(doc)

\* C34: for every week key, weekly_xp of that week never decreases, whatever
\* the operation: a stage completion with an award of any sign, a challenge
\* update, a restart with its backfill.
WeeklyXPNeverDecreases ==
    [][\A w \in Weeks : doc'.weekly_xp[w] >= doc.weekly_xp[w]]_vars

\* a stage completion with a negative award has left a positive weekly XP as
\* it was
NegativeAwardAfterWeeklyXP ==
    /\ NegativeAward(last)
    /\ doc.weekly_xp[get_week_key(today)] > 0
    /\ doc.total_xp < doc.weekly_xp[get_week_key(today)]

(***************************************************************************)
(* A coaching turn whose dialogue generator or speech synthesizer fails.   *)
(***************************************************************************)
ProcessCalled(l, roleplay, llm, tts) ==
    l.call.op = "process" /\ l.call.arg = <<roleplay, llm, tts>>

TurnMode(roleplay) == IF roleplay # "" THEN "roleplay_" \o roleplay ELSE "conversation"

SamePersisted ==
    /\ conversations' = conversations
    /\ doc'.ach.counts = doc.ach.counts
    /\ doc'.dc = doc.dc
    /\ doc'.total_xp = doc.total_xp

NothingLost ==
    /\ \A c \in CounterNames : doc'.ach.counts[c] >= doc.ach.counts[c]
    /\ doc'.total_xp >= doc.total_xp
    /\ Earned(doc) \subseteq Earned(doc')
    /\ \A k \in 1..Len(doc.dc.slots) :
          doc'.dc.week = doc.dc.week => doc'.dc.slots[k].current >= doc.dc.slots[k].current

\* the transcript of (u, m) is the one before with the whole turn after it:
\* the user's line and every line of the reply
WholeTurnStored(u, m) ==
    /\ Len(conversations'[u][m]) = Len(conversations[u][m]) + 1 + Len(shape)
    /\ \A i \in 1..Len(conversations[u][m]) :
          conversations'[u][m][i] = conversations[u][m][i]
    /\ \A i \in 1..(1 + Len(shape)) :
          LET line == conversations'[u][m][Len(conversations[u][m]) + i]
          IN  IsBlank(line) \/ (line.user = u /\ line.mode = m /\ line.part = i)
    /\ \A v \in Users, k \in ModeKeys :
          <<v, k>> # <<u, m>> => conversations'[v][k] = conversations[v][k]

\* C35: a turn whose dialogue generator fails leaves the transcripts, the
\* activity counters, the challenge progress and total_xp as they were; a
\* turn whose speech synthesizer fails loses nothing stored before it and
\* stores the whole turn in the transcript, not a part of it.
ServiceFailureKeepsState ==
    [][\A roleplay \in {"", "teacher"} :
          /\ (\E tts \in ServiceOutcomes : ProcessCalled(last', roleplay, Raises, tts))
                => SamePersisted
          /\ ProcessCalled(last', roleplay, Returns, Raises)
                => NothingLost /\ WholeTurnStored(CacheUser, TurnMode(roleplay))]_vars

\* the generator has failed in a turn after a turn that was stored and
\* counted
GeneratorFailedAfterTurn ==
    /\ ProcessCalled(last, "", Raises, Returns)
    /\ conversations[CacheUser]["conversation"] # EmptyText
    /\ doc.ach.counts["conversation_count"] >= 1
    /\ doc.dc.slots[1].current >= 1

(***************************************************************************)
(* get_daily_challenges within the week of the stored set.                 *)
(***************************************************************************)
\* C36: when the stored challenge set carries the key of the current week,
\* get_daily_challenges returns the stored set and leaves the document as it
\* was: slots, completed flags, completed_today and streak.
SameWeekReadChangesNothing ==
    [][(last'.call.op = "get_daily_challenges" /\ doc.dc.week = get_week_key(today))
          => /\ doc' = doc
             /\ get_daily_challenges(doc, today).challenges = doc.dc
             /\ get_daily_challenges(doc', today').challenges = doc.dc]_vars

\* the set was read in its own week with progress and a completed slot in it
ProgressReadBack ==
    /\ last.call = Op("get_daily_challenges", "", 0)
    /\ doc.dc.week = get_week_key(today)
    /\ doc.dc.slots[1].current >= 1
    /\ doc.dc.completed_today >= 1

(***************************************************************************)
(* Stars against XP.                                                       *)
(***************************************************************************)
SumStars(d) ==
    d.mode_stats["repeat"].stars + d.mode_stats["spellbee"].stars
    + d.mode_stats["conversation"].stars + d.mode_stats["roleplay"].stars
    + d.mode_stats["other"].stars

StarsBalanced(d) == d.total_stars = SumStars(d) /\ d.total_xp >= d.total_stars

ChallengeShare(d) == d.total_xp - d.total_stars

\* C37: for a user created by signup total_stars is the sum of the stars of
\* all modes and total_xp is at least total_stars, after every operation; the
\* difference of the two grows in each operation by the XP its challenge
\* update returned, and by nothing else.
StarsAndXPAccounted ==
    /\ StarsBalanced(create_user) /\ ChallengeShare(create_user) = 0
    /\ [][/\ StarsBalanced(doc) => StarsBalanced(doc')
          /\ ChallengeShare(doc') = ChallengeShare(doc) + last'.ret.xp]_vars

\* a spelling stage of a student whose XP so far came from challenges
StarsBesideChallengeXP ==
    /\ StageSaved(last, "spellbee")
    /\ doc.total_stars = last.call.n
    /\ doc.total_stars > 0
    /\ ChallengeShare(doc) >= 2 * ChallengeXP
    /\ StarsBalanced(doc)

(***************************************************************************)
(* The login streak and its maximum.                                       *)
(***************************************************************************)
StreaksOrdered(d) ==
    /\ d.ach.kind = "dict"
    /\ d.ach.max_login_streak >= d.ach.daily_login_streak
    /\ d.ach.daily_login_streak >= 0

\* C38: for a user created by signup max_login_streak >= daily_login_streak
\* >= 0 in every state, max_login_streak never decreases, and
\* daily_login_streak is at least 1 from the first login on.
LoginStreakBelowMax ==
    /\ StreaksOrdered(create_user)
    /\ [][StreaksOrdered(doc)
             => /\ StreaksOrdered(doc')
                /\ doc'.ach.max_login_streak >= doc.ach.max_login_streak
                /\ last'.call.op = "login" => doc'.ach.daily_login_streak >= 1
                /\ doc.ach.daily_login_streak >= 1 => doc'.ach.daily_login_streak >= 1]_vars

\* a login after a missed day: the streak starts again below its maximum
StreakRestartedBelowMax ==
    /\ last.call.op = "login"
    /\ doc.ach.last_login = today
    /\ doc.ach.daily_login_streak = 1
    /\ doc.ach.max_login_streak >= 2

\* the stored accounts with this username whose status lets them log in with this password
MayLogIn(teachers, username, password) ==
    {i \in 1..Len(teachers.docs) :
        /\ teachers.docs[i].username = username
        /\ teachers.docs[i].status \in {"approved", Unset}
        /\ teachers.docs[i].password.of = password}

Pending(teachers, username) ==
    {i \in 1..Len(teachers.docs) :
        teachers.docs[i].username = username /\ teachers.docs[i].status = "pending"}

\* C39: a successful teacher signup adds the account in status pending; a
\* teacher login succeeds exactly when the account it names is approved (or
\* has no status) and the password matches, and then the session is that
\* teacher's; a refused login leaves the session as it was; no other operation
\* of signup, approve, reject and logout makes a teacher session.
TeacherLoginNeedsApproval ==
    [][/\ (last'.call.op = "teacher_signup" /\ last'.ret.success) =>
            /\ Pending(teachers_collection, last'.call.arg[1]) = {}
            /\ Pending(teachers_collection', last'.call.arg[1]) # {}
       /\ last'.call.op = "teacher_login" =>
            LET may == MayLogIn(teachers_collection, last'.call.arg[1], last'.call.arg[2])
            IN  /\ last'.ret.success <=> may # {}
                /\ last'.ret.success =>
                     \E i \in may : session' = [role |-> "teacher",
                                                user_id |-> teachers_collection.docs[i]._id]
                /\ ~last'.ret.success => session' = session
       /\ (session' # session /\ session'.role = "teacher") =>
            (last'.call.op = "teacher_login" /\ last'.ret.success)]_vars

\* a login with the right password refused for an account that signed up and was rejected
RejectedTeacherRefused ==
    /\ last.call.op = "teacher_login"
    /\ last.call.arg = <<Meera, Secret>>
    /\ ~last.ret.success
    /\ session = NoSession
    /\ \E i \in 1..Len(teachers_collection.docs) :
         /\ teachers_collection.docs[i]._id = <<"teacher_">> \o Meera
         /\ teachers_collection.docs[i].status = "rejected"
         /\ check_pw(teachers_collection.docs[i].password, Secret)

====
